---- MODULE Spec2Model ----
(***************************************************************************)
(* Model of the autonomous execution core of autocoder:                    *)
(*   safety_controls.py   CommandValidator (command risk classifier)       *)
(*   execution_engine.py  AutonomousExecutor (execute_command and friends) *)
(*   ai_agents.py         autonomous_develop_with_execution (the loop)     *)
(*                                                                         *)
(* Python strings are modelled as sequences of one-character strings, so   *)
(* that strip(), lower(), the `in` operator, startswith(), shlex.split()   *)
(* and the regular expressions are computed character by character.        *)
(* A literal text that the program only stores, concatenates and returns   *)
(* (a reason, a message, a context, a captured stdout) is a sequence of    *)
(* one element, the text itself.                                           *)
(***************************************************************************)
EXTENDS Naturals, Integers, Sequences, FiniteSets, TLC

\* ------------------------------------------------------------------------
\* Python string primitives
\* ------------------------------------------------------------------------

UpperAlpha == <<"A","B","C","D","E","F","G","H","I","J","K","L","M","N","O","P","Q","R","S","T","U","V","W","X","Y","Z">>
LowerAlpha == <<"a","b","c","d","e","f","g","h","i","j","k","l","m","n","o","p","q","r","s","t","u","v","w","x","y","z">>
DigitChars == {"0","1","2","3","4","5","6","7","8","9"}
Whitespace == {" ", "\t", "\n", "\r"}

Range(s) == {s[i] : i \in 1..Len(s)}

\* str.lower() on one character
LowerChar(c) ==
  IF \E i \in 1..Len(UpperAlpha) : UpperAlpha[i] = c
  THEN LowerAlpha[CHOOSE i \in 1..Len(UpperAlpha) : UpperAlpha[i] = c]
  ELSE c

\* str.lower()
Lower(s) == [i \in 1..Len(s) |-> LowerChar(s[i])]

\* str.strip(): drops leading and trailing whitespace
Strip(s) ==
  LET keep == {i \in 1..Len(s) : s[i] \notin Whitespace} IN
  IF keep = {} THEN <<>>
  ELSE LET lo == CHOOSE i \in keep : \A j \in keep : i <= j
           hi == CHOOSE i \in keep : \A j \in keep : j <= i
       IN SubSeq(s, lo, hi)

\* sub in s
Contains(s, sub) ==
  \E i \in 0..(Len(s) - Len(sub)) : \A k \in 1..Len(sub) : s[i + k] = sub[k]

\* s.startswith(p)
StartsWith(s, p) == Len(p) <= Len(s) /\ \A k \in 1..Len(p) : s[k] = p[k]

\* s.endswith(p)
EndsWith(s, p) == Len(p) <= Len(s) /\ SubSeq(s, Len(s) - Len(p) + 1, Len(s)) = p

\* sep.join(list)
RECURSIVE Join(_, _)
Join(sep, list) ==
  IF list = <<>> THEN <<>>
  ELSE IF Len(list) = 1 THEN list[1]
  ELSE list[1] \o sep \o Join(sep, Tail(list))

\* Optional[...]: None is the empty set, a value v is {v}
None == {}
Some(v) == {v}

\* ------------------------------------------------------------------------
\* State
\* ------------------------------------------------------------------------

VARIABLES
  c_command,   \* the arguments validate_command is applied to
  c_context,
  c_verdicts   \* the verdicts it returned, in call order

VARIABLES
  f_filepath,  \* the arguments validate_file_operation is applied to
  f_operation,
  f_verdicts   \* the verdicts it returned, in call order

fileVars == <<f_filepath, f_operation, f_verdicts>>

classifyVars == <<c_command, c_context, c_verdicts, fileVars>>

VARIABLES
  e_pc,               \* position inside execute_command
  e_command,          \* its arguments
  e_context,
  e_timeout,
  e_result,           \* the ExecutionResult it returned, once it has
  execution_history,  \* self.execution_history
  log,                \* the records written to self.log_file
  cwd,                \* the working directory of the process
  original_cwd,       \* the local of _execute_with_monitoring
  procs,              \* live processes of the spawned command's group
  popen_calls,        \* commands handed to subprocess.Popen so far
  approval_prompts,   \* commands shown by _request_human_approval so far
  files,              \* workspace files: name -> content
  faulted             \* the environment has made an engine step fail

engineVars == <<e_pc, e_command, e_context, e_timeout, e_result,
                execution_history, log, cwd, original_cwd, procs,
                popen_calls, approval_prompts, files, faulted>>

VARIABLES
  d_kind,     \* which entry point the caller is in
  d_code,     \* the code argument of its latest execute_python_code call
  d_results   \* the results the caller got back, in call order

VARIABLES
  workspace_dir,    \* self.workspace_dir, as given to the executor
  th_pc,            \* position of each thread inside _execute_with_monitoring
  th_original_cwd,  \* each thread's local original_cwd
  th_ran_in,        \* the directory each thread's command was started in
  th_overlap        \* two threads have been inside the function at once

threadVars == <<workspace_dir, th_pc, th_original_cwd, th_ran_in, th_overlap>>

driverVars == <<d_kind, d_code, d_results, threadVars>>

VARIABLES
  pc,                  \* position inside autonomous_develop_with_execution
  task,
  max_iterations,
  plan,
  iteration,
  generated_code,
  filename,
  execution_results,
  errors_encountered,
  packages_installed,
  missing_packages,    \* the part of the `for package` loop still to run
  coder_plan,          \* the plan argument of the latest code_with_qwen3 call
  result,              \* the AutonomousResult returned, once it has
  trace                \* the calls that returned so far: [ev, it, ok]

loopVars == <<pc, task, max_iterations, plan, iteration, generated_code, filename,
              execution_results, errors_encountered, packages_installed,
              missing_packages, coder_plan, result, trace>>

callerVars == <<classifyVars, driverVars, loopVars>>

otherVars == <<engineVars, driverVars, loopVars>>

vars == <<classifyVars, engineVars, driverVars, loopVars>>

\* ------------------------------------------------------------------------
\* safety_controls.py: CommandValidator
\* ------------------------------------------------------------------------

safe_commands == {
  <<"p","y","t","h","o","n">>, <<"p","y","t","h","o","n","3">>, <<"p","i","p">>, <<"l","s">>, <<"d","i","r">>, <<"c","a","t">>, <<"t","y","p","e">>, <<"h","e","a","d">>, <<"t","a","i","l">>,
  <<"m","k","d","i","r">>, <<"c","d">>, <<"p","w","d">>, <<"e","c","h","o">>, <<"g","r","e","p">>, <<"f","i","n","d">>, <<"w","c">>, <<"s","o","r","t">>, <<"u","n","i","q">>,
  <<"g","i","t"," ","s","t","a","t","u","s">>, <<"g","i","t"," ","d","i","f","f">>, <<"g","i","t"," ","l","o","g">>, <<"p","y","t","e","s","t">>, <<"p","y","t","h","o","n"," ","-","m">> }

caution_commands == {
  <<"p","i","p"," ","i","n","s","t","a","l","l">>, <<"p","i","p"," ","u","n","i","n","s","t","a","l","l">>, <<"g","i","t"," ","a","d","d">>, <<"g","i","t"," ","c","o","m","m","i","t">>,
  <<"c","p">>, <<"c","o","p","y">>, <<"m","v">>, <<"m","o","v","e">>, <<"t","o","u","c","h">>, <<"n","a","n","o">>, <<"v","i","m">> }

dangerous_commands == {
  <<"r","m">>, <<"d","e","l">>, <<"r","m","d","i","r">>, <<"g","i","t"," ","p","u","s","h">>, <<"g","i","t"," ","p","u","l","l">>, <<"g","i","t"," ","m","e","r","g","e">>,
  <<"c","h","m","o","d">>, <<"c","h","o","w","n">>, <<"s","u","d","o">>, <<"s","u">>, <<"s","y","s","t","e","m","c","t","l">>, <<"s","e","r","v","i","c","e">> }

forbidden_commands == {
  <<"r","m"," ","-","r","f">>, <<"f","o","r","m","a","t">>, <<"f","d","i","s","k">>, <<"d","d">>, <<"m","k","f","s">>, <<":","(",")","{"," ",":","|",":","&"," ","}",";",":">>,
  <<"c","u","r","l"," ","|"," ","b","a","s","h">>, <<"w","g","e","t"," ","|"," ","b","a","s","h">>, <<"e","v","a","l">>, <<"e","x","e","c">>, <<"s","h","u","t","d","o","w","n">>, <<"r","e","b","o","o","t">> }

dangerous_packages == {
  <<"s","u","b","p","r","o","c","e","s","s">>, <<"o","s">>, <<"s","y","s">>, <<"e","v","a","l">>, <<"e","x","e","c">>, <<"c","o","m","p","i","l","e">> }

\* the dict of _suggest_safe_alternative, in insertion order
alternatives == <<
  << <<"r","m"," ","-","r","f">>, <<"Use specific file deletion: rm filename.txt">> >>,
  << <<"s","u","d","o">>, <<"Run commands without elevated privileges">> >>,
  << <<"c","u","r","l"," ","|"," ","b","a","s","h">>, <<"Download first, then review before executing">> >>,
  << <<"r","m">>, <<"Specify exact files to delete, avoid wildcards">> >> >>

SafetyVerdict(risk, allow, why, alt, approval) ==
  [risk_level |-> risk, allowed |-> allow, reason |-> why,
   suggested_alternative |-> alt, requires_approval |-> approval]

\* a forbidden check that compares the command as typed
_is_forbidden_as_typed(command) ==
  \E forbidden \in forbidden_commands : Contains(command, forbidden)

_is_forbidden(command) ==
  LET command_lower == Lower(command) IN
  \E forbidden \in forbidden_commands : Contains(command_lower, forbidden)

\* a dangerous check that looks at the beginning of the command only
_is_dangerous_prefix(command) ==
  \E dangerous \in dangerous_commands : StartsWith(Lower(command), dangerous)

_is_dangerous(command) ==
  LET command_lower == Lower(command) IN
  \E dangerous \in dangerous_commands : Contains(command_lower, dangerous)

_requires_caution(command) ==
  LET command_lower == Lower(command) IN
  \E caution \in caution_commands : Contains(command_lower, caution)

_is_safe(command) ==
  LET command_lower == Lower(command) IN
  \E safe_cmd \in safe_commands : StartsWith(command_lower, Lower(safe_cmd))

_suggest_safe_alternative(dangerous_command) ==
  LET hits == {i \in 1..Len(alternatives) :
                 Contains(Lower(dangerous_command), alternatives[i][1])} IN
  IF hits = {} THEN None
  ELSE Some(alternatives[CHOOSE i \in hits : \A j \in hits : i <= j][2])

\* shlex.split(command): POSIX rules over the characters of the model
\* (whitespace separates tokens, ' and " quote, an unclosed quote raises
\* ValueError).  st is " " between tokens, "a" inside a token, or the open
\* quote character.  The result is [ok, parts].
RECURSIVE ShlexScan(_, _, _, _, _)
ShlexScan(s, i, st, tok, parts) ==
  IF i > Len(s) THEN
    IF st \in {"'", "\""} THEN [ok |-> FALSE, parts |-> <<>>]
    ELSE IF st = "a" THEN [ok |-> TRUE, parts |-> Append(parts, tok)]
    ELSE [ok |-> TRUE, parts |-> parts]
  ELSE LET c == s[i] IN
    IF st \in {"'", "\""} THEN
      IF c = st THEN ShlexScan(s, i + 1, "a", tok, parts)
      ELSE ShlexScan(s, i + 1, st, Append(tok, c), parts)
    ELSE IF c \in Whitespace THEN
      IF st = "a" THEN ShlexScan(s, i + 1, " ", <<>>, Append(parts, tok))
      ELSE ShlexScan(s, i + 1, " ", <<>>, parts)
    ELSE IF c \in {"'", "\""} THEN ShlexScan(s, i + 1, c, tok, parts)
    ELSE ShlexScan(s, i + 1, "a", Append(tok, c), parts)

shlex_split(command) == ShlexScan(command, 1, " ", <<>>, <<>>)

\* the character classes of safe_package_patterns
IsAlpha(c) == \E i \in 1..Len(UpperAlpha) : c = UpperAlpha[i] \/ c = LowerAlpha[i]
IsNameChar(c) == IsAlpha(c) \/ c \in DigitChars \/ c \in {"_", "-"}

\* `$` of re also matches just before one trailing newline
DropFinalNewline(s) ==
  IF Len(s) > 0 /\ s[Len(s)] = "\n" THEN {s, SubSeq(s, 1, Len(s) - 1)} ELSE {s}

\* re.match(r'^[a-zA-Z][a-zA-Z0-9_-]*$', package)
MatchesBareName(package) ==
  \E p \in DropFinalNewline(package) :
    /\ Len(p) >= 1
    /\ IsAlpha(p[1])
    /\ \A i \in 2..Len(p) : IsNameChar(p[i])

\* re.match(r'^[a-zA-Z][a-zA-Z0-9_-]*==[\d.]+$', package)
MatchesPinned(package) ==
  \E p \in DropFinalNewline(package) :
    \E k \in 1..(Len(p) - 3) :
      /\ IsAlpha(p[1])
      /\ \A i \in 2..k : IsNameChar(p[i])
      /\ p[k + 1] = "=" /\ p[k + 2] = "="
      /\ \A i \in (k + 3)..Len(p) : p[i] \in DigitChars \cup {"."}

safe_package_patterns(package) == MatchesBareName(package) \/ MatchesPinned(package)

\* packages = [pkg for pkg in packages if not pkg.startswith('-')]
RemoveFlags(packages) == SelectSeq(packages, LAMBDA pkg : ~StartsWith(pkg, <<"-">>))

\* the `for package in packages` loop: the verdict of the first package that
\* is rejected, or CAUTION when none is
RECURSIVE ValidatePackages(_, _)
ValidatePackages(packages, all) ==
  IF packages = <<>> THEN
    SafetyVerdict("caution", TRUE,
                  <<"Package installation approved: ">> \o Join(<<", ">>, all), None, FALSE)
  ELSE LET package == Head(packages) IN
    IF Lower(package) \in dangerous_packages THEN
      SafetyVerdict("danger", FALSE,
                    <<"Package '">> \o package \o <<"' is potentially dangerous">>, None, TRUE)
    ELSE IF ~safe_package_patterns(package) THEN
      SafetyVerdict("warning", FALSE,
                    <<"Package name '">> \o package \o <<"' doesn't match safe patterns">>,
                    None, TRUE)
    ELSE ValidatePackages(Tail(packages), all)

_validate_pip_install(command) ==
  LET split == shlex_split(command) IN
  IF ~split.ok THEN
    SafetyVerdict("warning", FALSE,
                  <<"Could not parse pip install command: No closing quotation">>, None, TRUE)
  ELSE LET parts == split.parts IN
    IF Len(parts) < 3 \/ parts[1] # <<"p","i","p">> \/ parts[2] # <<"i","n","s","t","a","l","l">> THEN
      SafetyVerdict("warning", FALSE, <<"Invalid pip install command format">>, None, FALSE)
    ELSE LET packages == RemoveFlags(SubSeq(parts, 3, Len(parts))) IN
      ValidatePackages(packages, packages)

IsPipInstallCommand(command) == Contains(command, <<"p","i","p"," ","i","n","s","t","a","l","l">>)

\* a validator that keeps count: it answers a second call with a warning
validate_command_once(cmd, context) ==
  IF c_verdicts = <<>> THEN
    SafetyVerdict("safe", TRUE, <<"Command is on safe list">>, None, FALSE)
  ELSE
    SafetyVerdict("warning", FALSE, <<"Unknown command pattern - requires validation">>,
                  None, TRUE)

validate_command(cmd, context) ==
  LET command == Strip(cmd) IN
  IF _is_forbidden(command) THEN
    SafetyVerdict("forbidden", FALSE, <<"Command contains forbidden operations">>,
                  _suggest_safe_alternative(command), FALSE)
  ELSE IF _is_dangerous(command) THEN
    SafetyVerdict("danger", FALSE,
                  <<"Command requires human approval due to system modification risk">>,
                  None, TRUE)
  ELSE IF _requires_caution(command) THEN
    IF IsPipInstallCommand(command) THEN _validate_pip_install(command)
    ELSE SafetyVerdict("caution", TRUE, <<"Command allowed with monitoring">>, None, FALSE)
  ELSE IF _is_safe(command) THEN
    SafetyVerdict("safe", TRUE, <<"Command is on safe list">>, None, FALSE)
  ELSE
    SafetyVerdict("warning", FALSE, <<"Unknown command pattern - requires validation">>,
                  None, TRUE)

\* validate_file_operation, lines 212-238
allowed_dirs == { <<"a","i","_","w","o","r","k","s","p","a","c","e">>, <<"g","e","n","e","r","a","t","e","d","_","c","o","d","e">>, <<"t","e","m","p">>, <<".">> }

system_paths == { <<"/","e","t","c">>, <<"/","s","y","s">>, <<"/","p","r","o","c">>, <<"C",":","\\","W","i","n","d","o","w","s">>, <<"C",":","\\","S","y","s","t","e","m">> }

validate_file_operation(filepath, operation) ==
  IF ~\E allowed_dir \in allowed_dirs : StartsWith(filepath, allowed_dir) THEN
    SafetyVerdict("danger", FALSE,
                  <<"File operation outside allowed directories: ">> \o filepath, None, TRUE)
  ELSE IF \E system_path \in system_paths : Contains(filepath, system_path) THEN
    SafetyVerdict("forbidden", FALSE, <<"Access to system directories is forbidden">>,
                  None, FALSE)
  ELSE
    SafetyVerdict("safe", TRUE, <<"File operation within safe boundaries">>, None, FALSE)

\* ------------------------------------------------------------------------
\* Classifier specification: validate_command applied to bounded inputs
\* ------------------------------------------------------------------------

\* number of validate_command calls made on one input
MaxClassifyCalls == 2

UpperChar(c) ==
  IF \E i \in 1..Len(LowerAlpha) : LowerAlpha[i] = c
  THEN UpperAlpha[CHOOSE i \in 1..Len(LowerAlpha) : LowerAlpha[i] = c]
  ELSE c

Upper(s) == [i \in 1..Len(s) |-> UpperChar(s[i])]

\* the commands the classifier is applied to: every forbidden entry, and
\* commands of every other tier, each also in upper case, padded with
\* whitespace, behind a safe prefix and in front of a dangerous tail
PipCores == {
  <<"p","i","p"," ","i","n","s","t","a","l","l"," ","r","e","q","u","e","s","t","s">>, <<"p","i","p"," ","i","n","s","t","a","l","l"," ","o","s">>, <<"p","i","p"," ","i","n","s","t","a","l","l"," ","o","s","=","=","1",".","0">>,
  <<"p","i","p"," ","i","n","s","t","a","l","l"," ","s","y","s">>, <<"p","i","p"," ","i","n","s","t","a","l","l"," ","c","o","m","p","i","l","e","=","=","2",".","1">>, <<"p","i","p"," ","i","n","s","t","a","l","l"," ","s","u","b","p","r","o","c","e","s","s">>,
  <<"p","i","p"," ","i","n","s","t","a","l","l"," ","e","v","a","l">>, <<"p","i","p"," ","i","n","s","t","a","l","l"," ","e","x","e","c">>, <<"p","i","p"," ","i","n","s","t","a","l","l"," ","-","U"," ","n","u","m","p","y","=","=","1",".","2">>,
  <<"p","i","p"," ","i","n","s","t","a","l","l"," ","'","r","e","q","u","e","s","t","s">>, <<"p","i","p"," ","i","n","s","t","a","l","l"," ","a",".","b">>, <<"p","i","p"," ","i","n","s","t","a","l","l">>,
  <<"p","i","p"," ","i","n","s","t","a","l","l"," ","f","l","a","s","k"," ","o","s">>, <<"p","i","p"," ","i","n","s","t","a","l","l"," ","'","o","s","'">>, <<"p","i","p"," ","i","n","s","t","a","l","l"," ","-","q">>,
  <<"p","i","p"," ","i","n","s","t","a","l","l"," ","C","o","m","p","i","l","e">>, <<"p","i","p"," "," ","i","n","s","t","a","l","l"," ","o","s">> }

OtherCores == {
  <<"r","m"," ","f","i","l","e",".","t","x","t">>, <<"s","u","d","o"," ","l","s">>, <<"g","i","t"," ","p","u","s","h"," ","o","r","i","g","i","n">>, <<"c","p"," ","a"," ","b">>, <<"g","i","t"," ","a","d","d"," ",".">>,
  <<"p","i","p"," ","u","n","i","n","s","t","a","l","l"," ","x">>, <<"l","s"," ","-","l","a">>, <<"e","c","h","o"," ","h","e","l","l","o">>, <<"p","y","t","h","o","n"," ","s","c","r","i","p","t",".","p","y">>,
  <<"g","i","t"," ","s","t","a","t","u","s">>, <<"m","a","k","e"," ","a","l","l">>, <<>>, <<"p","y","t","e","s","t"," ","-","q">>, <<".","/","r","u","n",".","s","h">> }

CommandCores == forbidden_commands \cup PipCores \cup OtherCores

CommandPrefixes == { <<>>, <<" ","\t">>, <<"p","y","t","h","o","n"," ">> }
CommandSuffixes == { <<>>, <<" ","\n">>, <<" ",";"," ","s","u","d","o"," ","c","p"," ","a"," ","b">> }

ClassifyCommands ==
  { pre \o body \o suf :
      pre \in CommandPrefixes,
      body \in CommandCores \cup {Upper(c) : c \in CommandCores},
      suf \in CommandSuffixes }

ClassifyContexts == { <<>>, <<"c","l","e","a","n","u","p",":"," ","r","m"," ","-","r","f"," ","i","s"," ","f","i","n","e"," ","h","e","r","e">> }

FileUnused == f_filepath = <<>> /\ f_operation = <<>> /\ f_verdicts = <<>>

ClassifyInit ==
  /\ c_command \in ClassifyCommands
  /\ c_context \in ClassifyContexts
  /\ c_verdicts = <<>>
  /\ FileUnused

\* one call validate_command(c_command, c_context)
ClassifyCall ==
  /\ Len(c_verdicts) < MaxClassifyCalls
  /\ c_verdicts' = Append(c_verdicts, validate_command(c_command, c_context))
  /\ UNCHANGED <<c_command, c_context, fileVars>>
  /\ UNCHANGED otherVars

ClassifyNext == ClassifyCall

\* the paths and operations validate_file_operation is applied to
FilePaths == {
  <<"/","e","t","c","/","p","a","s","s","w","d">>, <<"/","e","t","c">>, <<"/","s","y","s","/","k","e","r","n","e","l","/","x">>, <<"/","p","r","o","c","/","1","/","m","e","m">>, <<"/","h","o","m","e","/","u","/","n","o","t","e","s",".","t","x","t">>,
  <<"C",":","\\","W","i","n","d","o","w","s","\\","s","y","s","t","e","m","3","2">>, <<"C",":","\\","S","y","s","t","e","m","\\","x">>, <<"D",":","\\","d","a","t","a","\\","x">>, <<"/","E","T","C","/","p","a","s","s","w","d">>,
  <<"a","i","_","w","o","r","k","s","p","a","c","e","/","a",".","p","y">>, <<"a","i","_","w","o","r","k","s","p","a","c","e","/",".",".","/",".",".","/","e","t","c","/","p","a","s","s","w","d">>, <<"g","e","n","e","r","a","t","e","d","_","c","o","d","e","/","x",".","p","y">>,
  <<"t","e","m","p","/","x">>, <<"t","e","m","p","o","r","a","r","y","/","p","r","o","c",".","t","x","t">>, <<"t","e","m","p","/","p","r","o","c","/","x">>, <<".","/","e","t","c","/","h","o","s","t","s">>, <<".",".","/","x">>,
  <<".","\\","C",":","\\","W","i","n","d","o","w","s">>, <<>>, <<"s","r","c","/","m","a","i","n",".","p","y">>, <<"/","t","m","p","/","a","i","_","w","o","r","k","s","p","a","c","e","/","a",".","p","y">> }

FileOperations == { <<"r","e","a","d">>, <<"w","r","i","t","e">>, <<"d","e","l","e","t","e">> }

FileInit ==
  /\ f_filepath \in FilePaths
  /\ f_operation \in FileOperations
  /\ f_verdicts = <<>>

\* one call validate_file_operation(f_filepath, f_operation)
FileCall ==
  /\ Len(f_verdicts) < MaxClassifyCalls
  /\ f_verdicts' = Append(f_verdicts, validate_file_operation(f_filepath, f_operation))
  /\ UNCHANGED <<f_filepath, f_operation, c_command, c_context, c_verdicts>>
  /\ UNCHANGED otherVars

FileNext == FileCall

\* ------------------------------------------------------------------------
\* execution_engine.py: AutonomousExecutor
\* ------------------------------------------------------------------------

\* config.safety.max_execution_time, and the timeout install_package passes
max_execution_time == 30
install_timeout == 120

\* str(n) for a natural number
RECURSIVE IntToStr(_)
IntToStr(n) ==
  LET digits == <<"0","1","2","3","4","5","6","7","8","9">> IN
  IF n < 10 THEN <<digits[n + 1]>>
  ELSE IntToStr(n \div 10) \o <<digits[(n % 10) + 1]>>

\* the dataclass ExecutionResult without its clock fields (timestamp,
\* execution_time) and its resource sample
ExecutionResult(command, out, err, code, ok, etype, fixes) ==
  [command |-> command, stdout |-> out, stderr |-> err, exit_code |-> code,
   success |-> ok, error_type |-> etype, suggested_fixes |-> fixes]

_classify_error(stderr) ==
  LET stderr_lower == Lower(stderr) IN
  IF Contains(stderr_lower, <<"m","o","d","u","l","e","n","o","t","f","o","u","n","d","e","r","r","o","r">>)
     \/ Contains(stderr_lower, <<"n","o"," ","m","o","d","u","l","e"," ","n","a","m","e","d">>) THEN "MISSING_MODULE"
  ELSE IF Contains(stderr_lower, <<"s","y","n","t","a","x","e","r","r","o","r">>) THEN "SYNTAX_ERROR"
  ELSE IF Contains(stderr_lower, <<"i","n","d","e","n","t","a","t","i","o","n","e","r","r","o","r">>) THEN "INDENTATION_ERROR"
  ELSE IF Contains(stderr_lower, <<"n","a","m","e","e","r","r","o","r">>) THEN "NAME_ERROR"
  ELSE IF Contains(stderr_lower, <<"t","y","p","e","e","r","r","o","r">>) THEN "TYPE_ERROR"
  ELSE IF Contains(stderr_lower, <<"v","a","l","u","e","e","r","r","o","r">>) THEN "VALUE_ERROR"
  ELSE IF Contains(stderr_lower, <<"f","i","l","e","n","o","t","f","o","u","n","d","e","r","r","o","r">>) THEN "FILE_NOT_FOUND"
  ELSE IF Contains(stderr_lower, <<"p","e","r","m","i","s","s","i","o","n","e","r","r","o","r">>) THEN "PERMISSION_ERROR"
  ELSE "UNKNOWN_ERROR"

\* index of the first character at or after position p that is in `stops`,
\* or Len(s) + 1
RECURSIVE ScanTo(_, _, _)
ScanTo(s, p, stops) ==
  IF p > Len(s) \/ s[p] \in stops THEN p ELSE ScanTo(s, p + 1, stops)

\* re.findall(prefix + "([^']+)'", s) for a prefix that ends with the opening
\* quote: the groups of the matches, left to right, non-overlapping, from
\* position i on
RECURSIVE FindAllQuoted(_, _, _)
FindAllQuoted(s, prefix, i) ==
  IF i + Len(prefix) - 1 > Len(s) THEN <<>>
  ELSE LET p == i + Len(prefix)
           q == ScanTo(s, p, {"'"})
       IN IF SubSeq(s, i, p - 1) = prefix /\ q > p /\ q <= Len(s)
          THEN <<SubSeq(s, p, q - 1)>> \o FindAllQuoted(s, prefix, q + 1)
          ELSE FindAllQuoted(s, prefix, i + 1)

\* re.findall(prefix + "([^\s]+)", s)
RECURSIVE FindAllWord(_, _, _)
FindAllWord(s, prefix, i) ==
  IF i + Len(prefix) - 1 > Len(s) THEN <<>>
  ELSE LET p == i + Len(prefix)
           q == ScanTo(s, p, Whitespace)
       IN IF SubSeq(s, i, p - 1) = prefix /\ q > p
          THEN <<SubSeq(s, p, q - 1)>> \o FindAllWord(s, prefix, q)
          ELSE FindAllWord(s, prefix, i + 1)

_suggest_error_fixes(stderr, command) ==
  LET error_type == _classify_error(stderr) IN
  IF error_type = "MISSING_MODULE" THEN
    LET match == FindAllQuoted(stderr, <<"N","o"," ","m","o","d","u","l","e"," ","n","a","m","e","d"," ","'">>, 1) IN
    IF match # <<>> THEN << <<"Install missing module: pip install ">> \o match[1] >>
    ELSE <<>>
  ELSE IF error_type = "SYNTAX_ERROR" THEN
    << <<"Check Python syntax - look for missing colons, parentheses, or quotes">>,
       <<"Verify indentation is consistent">> >>
  ELSE IF error_type = "INDENTATION_ERROR" THEN
    << <<"Fix indentation - use consistent spaces or tabs">>,
       <<"Check that code blocks are properly indented">> >>
  ELSE IF error_type = "FILE_NOT_FOUND" THEN
    << <<"Check that the file path is correct">>,
       <<"Ensure the file exists in the expected location">> >>
  ELSE IF error_type = "PERMISSION_ERROR" THEN
    << <<"Check file permissions">>,
       <<"Ensure you have write access to the target directory">> >>
  ELSE <<>>

OriginalDir == "/project"
WorkspaceDir == "/project/ai_workspace"

EngineInit ==
  /\ e_pc = "idle"
  /\ e_command = <<>>
  /\ e_context = <<>>
  /\ e_timeout = 0
  /\ e_result = None
  /\ execution_history = <<>>
  /\ log = <<>>
  /\ cwd = OriginalDir
  /\ original_cwd = OriginalDir
  /\ procs = {}
  /\ popen_calls = <<>>
  /\ approval_prompts = <<>>
  /\ files = [n \in {} |-> <<>>]

\* largest max_iterations a run is started with
MaxIterations == 2

\* The environment makes at most one engine step of a run fail (a write, a
\* chdir, a spawn, a timeout).  A run of the loop with the largest budget is
\* explored with that failure in its first primary execution only; shorter
\* runs and direct callers with the failure anywhere.
MayFault ==
  /\ ~faulted
  /\ \/ max_iterations < MaxIterations
     \/ iteration = 0 /\ pc \in {"execute", "wait_primary"}

\* _log_execution_attempt, _log_execution_result
AttemptEntry(command, context) ==
  [action |-> "EXECUTION_ATTEMPT", command |-> command, context |-> context]

ResultEntry(r) ==
  [action |-> "EXECUTION_RESULT", command |-> r.command, success |-> r.success,
   exit_code |-> r.exit_code, error_type |-> r.error_type]

\* what the spawned process can do when it ends by itself: [stdout, stderr,
\* exit_code].  A file holding an error text instead of code is not Python.
Outcome(out, err, code) == [stdout |-> out, stderr |-> err, exit_code |-> code]

StderrMissingFoo == <<"M","o","d","u","l","e","N","o","t","F","o","u","n","d","E","r","r","o","r",":"," ","N","o"," ","m","o","d","u","l","e"," ","n","a","m","e","d"," ","'","f","o","o","'">>
StderrMissingBar == <<"I","m","p","o","r","t","E","r","r","o","r",":"," ","N","o"," ","m","o","d","u","l","e"," ","n","a","m","e","d"," ","'","b","a","r","'">>
StderrMissingSub == <<"M","o","d","u","l","e","N","o","t","F","o","u","n","d","E","r","r","o","r",":"," ","N","o"," ","m","o","d","u","l","e"," ","n","a","m","e","d"," ","'","f","o","o",".","x","'">>
StderrSyntax == <<"S","y","n","t","a","x","E","r","r","o","r",":"," ","i","n","v","a","l","i","d"," ","s","y","n","t","a","x">>

PythonOutcomes ==
  { Outcome(<<"42\n">>, <<>>, 0),
    Outcome(<<>>, StderrSyntax, 1),
    Outcome(<<>>, StderrMissingFoo, 1),
    Outcome(<<>>, StderrMissingBar, 1),
    Outcome(<<>>, StderrMissingSub, 1) }

RetryOutcomes ==
  { Outcome(<<"done\n">>, <<>>, 0),
    Outcome(<<"partial\n">>, StderrMissingFoo, 1) }

PipOutcomes ==
  { Outcome(<<"Successfully installed">>, <<>>, 0),
    Outcome(<<>>, <<"E","R","R","O","R",":"," ","n","o"," ","m","a","t","c","h">>, 1) }

ShellOutcomes ==
  { Outcome(<<"hello\n">>, <<>>, 0),
    Outcome(<<>>, <<"b","o","o","m">>, 2),
    Outcome(<<>>, <<"P","e","r","m","i","s","s","i","o","n","E","r","r","o","r",":"," ","d","e","n","i","e","d">>, 1),
    Outcome(<<>>, <<"N","a","m","e","E","r","r","o","r",":"," ","n","a","m","e"," ","'","x","'"," ","i","s"," ","n","o","t"," ","d","e","f","i","n","e","d">>, 1),
    Outcome(<<>>, <<"N","o"," ","m","o","d","u","l","e"," ","n","a","m","e","d"," ","f","o","o">>, 1) }

\* iterations of the longest run the model follows
LongIterations == 5

\* a run longer than MaxIterations is followed through failing executions
\* only, once its first iteration is over
LaterInLongRun == max_iterations > MaxIterations /\ iteration > 0

\* the interpreter names the file in what it writes to stderr
LaterOutcomes(name) ==
  { Outcome(<<>>, <<"S","y","n","t","a","x","E","r","r","o","r",":"," ","i","n","v","a","l","i","d"," ","s","y","n","t","a","x"," ","(">> \o name \o <<")">>, 1) }

ProcessOutcomes(command) ==
  IF StartsWith(command, <<"p","y","t","h","o","n","3"," ","a","u","t","o","n","o","m","o","u","s","_","i","t","e","r","a","t","i","o","n","_">>) THEN
    LET name == SubSeq(command, 9, Len(command)) IN
    IF LaterInLongRun THEN LaterOutcomes(name)
    ELSE IF name \in DOMAIN files /\ StartsWith(files[name], <<"E","r","r","o","r">>) THEN
      { Outcome(<<>>, StderrSyntax, 1) }
    ELSE IF EndsWith(command, <<"_","r","e","t","r","y",".","p","y">>) THEN RetryOutcomes
    ELSE PythonOutcomes
  ELSE IF StartsWith(command, <<"p","i","p"," ","i","n","s","t","a","l","l"," ">>) THEN PipOutcomes
  ELSE ShellOutcomes

\* execute_command, lines 68-72: resolve the timeout (None is 0 here, and
\* `timeout or default` treats both alike) and log the attempt
EnterExecute(command, context, timeout) ==
  /\ e_pc' = "validate"
  /\ e_command' = command
  /\ e_context' = context
  /\ e_timeout' = IF timeout = 0 THEN max_execution_time ELSE timeout
  /\ e_result' = None
  /\ log' = Append(log, AttemptEntry(command, context))
  /\ UNCHANGED <<execution_history, cwd, original_cwd, procs, popen_calls,
                 approval_prompts>>
  /\ UNCHANGED faulted

\* a gate that lets a refused command through unless it asks for approval
BlockedOnlyWithApproval(verdict) == ~verdict.allowed /\ verdict.requires_approval

\* line 77: `if not safety_verdict.allowed`
BlockedBySafety(verdict) == ~verdict.allowed

\* line 88: `if safety_verdict.requires_approval`
NeedsApproval(verdict) == verdict.requires_approval

BlockedResult(command, verdict) ==
  ExecutionResult(command, <<>>, <<"Command blocked by safety controls: ">> \o verdict.reason,
                  -1, FALSE, "SAFETY_VIOLATION", <<>>)

DeniedResult(command) ==
  ExecutionResult(command, <<>>, <<"Command execution denied by user">>,
                  -2, FALSE, "USER_DENIED", <<>>)

TimeoutResult(command, timeout) ==
  ExecutionResult(command, <<>>,
                  <<"Command timed out after ">> \o IntToStr(timeout) \o <<" seconds">>,
                  -3, FALSE, "TIMEOUT", <<>>)

\* an engine fault reported as if the safety check had refused the command
ErrorResultAsRefusal(command, message) ==
  ExecutionResult(command, <<>>, <<"Execution error: ">> \o message,
                  -1, FALSE, "SAFETY_VIOLATION", <<>>)

\* lines 137-146
ErrorResult(command, message) ==
  ExecutionResult(command, <<>>, <<"Execution error: ">> \o message,
                  -4, FALSE, "EXECUTION_ERROR", <<>>)

\* lines 106-119: the result of a process that ended by itself
CompletedResult(command, o) ==
  LET ok == (o.exit_code = 0) IN
  ExecutionResult(command, o.stdout, o.stderr, o.exit_code, ok,
                  IF ok THEN "None" ELSE _classify_error(o.stderr),
                  IF ok THEN <<>> ELSE _suggest_error_fixes(o.stderr, command))

\* lines 75-98: the safety gate.  _request_human_approval returns only on a
\* yes or a no; `details` and invalid answers loop.
Validate ==
  /\ e_pc = "validate"
  /\ LET safety_verdict == validate_command(e_command, e_context) IN
     IF BlockedBySafety(safety_verdict) THEN
       /\ e_result' = Some(BlockedResult(e_command, safety_verdict))
       /\ e_pc' = "returned"
       /\ UNCHANGED approval_prompts
     ELSE IF NeedsApproval(safety_verdict) THEN
       /\ approval_prompts' = Append(approval_prompts, e_command)
       /\ \E approved \in BOOLEAN :
            IF approved THEN e_pc' = "chdir" /\ UNCHANGED e_result
            ELSE e_pc' = "returned" /\ e_result' = Some(DeniedResult(e_command))
     ELSE
       /\ e_pc' = "chdir"
       /\ UNCHANGED <<e_result, approval_prompts>>
  /\ UNCHANGED <<e_command, e_context, e_timeout, execution_history, log, cwd,
                 original_cwd, procs, popen_calls, files>>
  /\ UNCHANGED callerVars
  /\ UNCHANGED faulted

\* lines 239-240: os.getcwd(), os.chdir(workspace_dir)
Chdir ==
  /\ e_pc = "chdir"
  /\ original_cwd' = cwd
  /\ cwd' = WorkspaceDir
  /\ e_pc' = "spawn"
  /\ UNCHANGED <<e_command, e_context, e_timeout, e_result, execution_history,
                 log, procs, popen_calls, approval_prompts, files>>
  /\ UNCHANGED callerVars
  /\ UNCHANGED faulted

\* os.chdir raises (the workspace is gone): the exception leaves
\* _execute_with_monitoring before its try and is caught at line 137
ChdirFails ==
  /\ e_pc = "chdir"
  /\ MayFault
  /\ faulted' = TRUE
  /\ original_cwd' = cwd
  /\ e_result' = Some(ErrorResult(e_command,
                   <<"[Errno 2] No such file or directory: 'ai_workspace'">>))
  /\ e_pc' = "returned"
  /\ UNCHANGED <<e_command, e_context, e_timeout, execution_history, log, cwd,
                 procs, popen_calls, approval_prompts, files>>
  /\ UNCHANGED callerVars

\* lines 244-251: subprocess.Popen in a new session (process group)
Spawn ==
  /\ e_pc = "spawn"
  /\ popen_calls' = Append(popen_calls, e_command)
  /\ procs' = {"leader"}
  /\ e_pc' = "running"
  /\ UNCHANGED <<e_command, e_context, e_timeout, e_result, execution_history,
                 log, cwd, original_cwd, approval_prompts, files>>
  /\ UNCHANGED callerVars
  /\ UNCHANGED faulted

\* an exit that leaves the process where the command ran
StayInWorkspace == UNCHANGED cwd

\* lines 278-280: the finally of _execute_with_monitoring
RestoreDirectory == cwd' = original_cwd

\* Popen raises: the finally of line 278 restores the directory, line 137
\* turns the exception into a result
SpawnFails ==
  /\ e_pc = "spawn"
  /\ MayFault
  /\ faulted' = TRUE
  /\ RestoreDirectory
  /\ e_result' = Some(ErrorResult(e_command, <<"[Errno 11] Resource temporarily unavailable">>))
  /\ e_pc' = "returned"
  /\ UNCHANGED <<e_command, e_context, e_timeout, execution_history, log,
                 original_cwd, procs, popen_calls, approval_prompts, files>>
  /\ UNCHANGED callerVars

\* lines 260-267, 278-280 and 103-125: communicate() returns in time
Complete ==
  /\ e_pc = "running"
  /\ \E o \in ProcessOutcomes(e_command) :
       LET exec_result == CompletedResult(e_command, o) IN
       /\ execution_history' = Append(execution_history, exec_result)
       /\ log' = Append(log, ResultEntry(exec_result))
       /\ e_result' = Some(exec_result)
  /\ procs' = {}
  /\ RestoreDirectory
  /\ e_pc' = "returned"
  /\ UNCHANGED <<e_command, e_context, e_timeout, original_cwd, popen_calls,
                 approval_prompts, files>>
  /\ UNCHANGED callerVars
  /\ UNCHANGED faulted

\* lines 269-280 and 127-136: communicate() times out; SIGTERM goes to the
\* process group and wait() returns when the leader is gone.  A child the
\* command forked may have a handler for SIGTERM and live on.
Timeout ==
  /\ e_pc = "running"
  /\ MayFault
  /\ faulted' = TRUE
  /\ \E survivors \in SUBSET {"child"} : procs' = survivors
  /\ RestoreDirectory
  /\ e_result' = Some(TimeoutResult(e_command, e_timeout))
  /\ e_pc' = "returned"
  /\ UNCHANGED <<e_command, e_context, e_timeout, execution_history, log,
                 original_cwd, popen_calls, approval_prompts, files>>
  /\ UNCHANGED callerVars

\* a write that leaves a file that is already there as it is
SaveCodeKeepExisting(fs, name, code) ==
  IF name \in DOMAIN fs THEN fs ELSE (name :> code) @@ fs

\* lines 177-178: open(code_file, 'w') and f.write(code)
SaveCode(fs, name, code) == (name :> code) @@ fs

\* execute_python_code, lines 160-188: name the file, write the code, call
\* execute_command on `python3 <name>`; a failing write returns the -5 result
NormaliseFilename(file_name) ==
  LET named == IF file_name = <<>> THEN <<"a","u","t","o","_","g","e","n","e","r","a","t","e","d","_","2","0","2","4","0","1","0","1","_","1","2","0","0","0","0",".","p","y">> ELSE file_name
  IN IF EndsWith(named, <<".","p","y">>) THEN named ELSE named \o <<".","p","y">>

PythonCommand(file_name) == <<"p","y","t","h","o","n","3"," ">> \o NormaliseFilename(file_name)

WriteFailedResult(file_name) ==
  ExecutionResult(PythonCommand(file_name), <<>>,
                  <<"Error saving/executing Python code: [Errno 28] No space left on device">>,
                  -5, FALSE, "PYTHON_EXECUTION_ERROR",
                  << <<"Check file permissions">>, <<"Verify Python installation">> >>)

execute_python_code(code, file_name, timeout) ==
  \/ /\ files' = SaveCode(files, NormaliseFilename(file_name), code)
     /\ EnterExecute(PythonCommand(file_name),
                     <<"Executing generated Python code: ">> \o NormaliseFilename(file_name),
                     timeout)
  \/ /\ MayFault
     /\ faulted' = TRUE
     /\ e_result' = Some(WriteFailedResult(file_name))
     /\ e_pc' = "returned"
     /\ UNCHANGED <<e_command, e_context, e_timeout, execution_history, log, cwd,
                    original_cwd, procs, popen_calls, approval_prompts, files>>

\* execute_python_code, lines 190-195: what it does with the result of
\* execute_command before returning it
PythonReturn(r) ==
  IF ~r.success /\ r.error_type = "UNKNOWN_ERROR" THEN
    [r EXCEPT !.error_type = _classify_error(r.stderr),
                   !.suggested_fixes = _suggest_error_fixes(r.stderr, r.command)]
  ELSE r

\* install_package, lines 223-234 (no version given)
install_package(package_name) ==
  /\ EnterExecute(<<"p","i","p"," ","i","n","s","t","a","l","l"," ">> \o package_name,
                  <<"Installing Python package: ">> \o package_name, install_timeout)
  /\ UNCHANGED files

TheResult == CHOOSE r \in e_result : TRUE

\* ------------------------------------------------------------------------
\* Engine specification: a caller that uses one AutonomousExecutor directly
\* ------------------------------------------------------------------------

\* calls one caller makes
MaxCalls == 2

EngineCommands ==
  { <<"e","c","h","o"," ","h","e","l","l","o">>, <<"c","p"," ","a"," ","b">>, <<"r","m"," ","-","r","f"," ","/">>, <<"s","u","d","o"," ","l","s">>, <<"m","a","k","e"," ","a","l","l">>,
    <<"p","y","t","h","o","n"," ","-","m"," ","p","i","p"," ","i","n","s","t","a","l","l"," ","x">>, <<"p","i","p"," ","i","n","s","t","a","l","l"," ","o","s">> }

DriverCodes == { <<"p","r","i","n","t","(","1",")">>, <<"x"," ","="," ","2">> }
DriverFilenames == { <<>>, <<"j","o","b">>, <<"j","o","b",".","p","y">>, <<"f","o","r","m","a","t","t","e","r">> }
\* the (code, filename) pairs a caller passes: job and job.py name one file
DriverPrograms ==
  { << <<"p","r","i","n","t","(","1",")">>, <<>> >>, << <<"p","r","i","n","t","(","1",")">>, <<"j","o","b">> >>,
    << <<"x"," ","="," ","2">>, <<"j","o","b",".","p","y">> >>, << <<"x"," ","="," ","2">>, <<"f","o","r","m","a","t","t","e","r">> >> }
DriverPackages == { <<"r","e","q","u","e","s","t","s">>, <<"e","x","e","c">> }

\* threads that call one executor in one process
NumThreads == 2

Threads == 1..NumThreads

ThreadsUnused ==
  /\ workspace_dir = "ai_workspace"
  /\ th_pc = [t \in Threads |-> "unused"]
  /\ th_original_cwd = [t \in Threads |-> OriginalDir]
  /\ th_ran_in = [t \in Threads |-> "none"]
  /\ th_overlap = FALSE

DriverIdle ==
  /\ d_kind = "none"
  /\ d_code = <<>>
  /\ d_results = <<>>

DriverInit == DriverIdle /\ ThreadsUnused

CallCommand ==
  /\ e_pc = "idle"
  /\ Len(d_results) < MaxCalls
  /\ \E command \in EngineCommands :
       EnterExecute(command, <<"manual">>, 0)
  /\ d_kind' = "command"
  /\ UNCHANGED <<files, d_code, d_results, threadVars>>
  /\ UNCHANGED <<classifyVars, loopVars>>

CallPython ==
  /\ e_pc = "idle"
  /\ Len(d_results) < MaxCalls
  /\ \E code \in DriverCodes, file_name \in DriverFilenames :
       /\ << code, file_name >> \in DriverPrograms
       /\ execute_python_code(code, file_name, 0)
       /\ d_code' = code
  /\ d_kind' = "python"
  /\ UNCHANGED <<d_results, threadVars>>
  /\ UNCHANGED <<classifyVars, loopVars>>

CallInstall ==
  /\ e_pc = "idle"
  /\ Len(d_results) < MaxCalls
  /\ \E package \in DriverPackages : install_package(package)
  /\ d_kind' = "command"
  /\ UNCHANGED <<d_code, d_results, threadVars>>
  /\ UNCHANGED <<classifyVars, loopVars>>

CallReturns ==
  /\ e_pc = "returned"
  /\ d_results' = Append(d_results,
                         IF d_kind = "python" THEN PythonReturn(TheResult) ELSE TheResult)
  /\ e_pc' = "idle"
  /\ d_kind' = "none"
  /\ UNCHANGED <<d_code, threadVars>>
  /\ UNCHANGED <<e_command, e_context, e_timeout, e_result, execution_history, log,
                 cwd, original_cwd, procs, popen_calls, approval_prompts, files>>
  /\ UNCHANGED <<classifyVars, loopVars>>
  /\ UNCHANGED faulted

DriverNext ==
  \/ CallCommand \/ CallPython \/ CallInstall \/ CallReturns
  \/ Validate \/ Chdir \/ ChdirFails \/ Spawn \/ SpawnFails \/ Complete \/ Timeout

\* ------------------------------------------------------------------------
\* Thread specification: _execute_with_monitoring called from several
\* threads of one process, which share the working directory
\* ------------------------------------------------------------------------

\* the workspace as the configuration names it, and as an absolute path
WorkspaceForms == { "ai_workspace", WorkspaceDir }

\* the directory os.chdir(path) leads to from directory `from`; the
\* workspace has no subdirectory
ResolveDir(from, path) ==
  IF path = WorkspaceDir THEN WorkspaceDir
  ELSE IF from = OriginalDir THEN WorkspaceDir
  ELSE "missing"

Inside(t) == th_pc[t] \in {"chdir", "spawn", "running"}

\* what a step of a thread leaves alone
ThreadFrame ==
  /\ UNCHANGED <<e_pc, e_command, e_context, e_timeout, e_result, execution_history,
                 log, original_cwd, procs, popen_calls, approval_prompts, files,
                 faulted>>
  /\ UNCHANGED <<classifyVars, loopVars, d_kind, d_code, d_results, workspace_dir>>

NoteOverlap ==
  th_overlap' = (th_overlap \/ \E t, u \in Threads :
                                  t # u /\ Inside(t)' /\ Inside(u)')

ThreadsInit ==
  /\ workspace_dir \in WorkspaceForms
  /\ th_pc = [t \in Threads |-> "getcwd"]
  /\ th_original_cwd = [t \in Threads |-> OriginalDir]
  /\ th_ran_in = [t \in Threads |-> "none"]
  /\ th_overlap = FALSE

\* line 239: original_cwd = os.getcwd()
ThreadGetcwd(t) ==
  /\ th_pc[t] = "getcwd"
  /\ th_original_cwd' = [th_original_cwd EXCEPT ![t] = cwd]
  /\ th_pc' = [th_pc EXCEPT ![t] = "chdir"]
  /\ NoteOverlap
  /\ UNCHANGED <<cwd, th_ran_in>>
  /\ ThreadFrame

\* line 240: os.chdir(self.workspace_dir); it raises before the try when
\* the path does not lead to a directory, and the call returns the -4 result
ThreadChdir(t) ==
  /\ th_pc[t] = "chdir"
  /\ IF ResolveDir(cwd, workspace_dir) = "missing" THEN
       /\ th_pc' = [th_pc EXCEPT ![t] = "returned"]
       /\ UNCHANGED cwd
     ELSE
       /\ th_pc' = [th_pc EXCEPT ![t] = "spawn"]
       /\ cwd' = ResolveDir(cwd, workspace_dir)
  /\ NoteOverlap
  /\ UNCHANGED <<th_original_cwd, th_ran_in>>
  /\ ThreadFrame

\* lines 244-251: the child starts in the directory the process is in
ThreadSpawn(t) ==
  /\ th_pc[t] = "spawn"
  /\ th_ran_in' = [th_ran_in EXCEPT ![t] = cwd]
  /\ th_pc' = [th_pc EXCEPT ![t] = "running"]
  /\ NoteOverlap
  /\ UNCHANGED <<cwd, th_original_cwd>>
  /\ ThreadFrame

\* a finally that leaves the directory as it is
ThreadStays(t) == UNCHANGED cwd

\* lines 278-280: os.chdir(original_cwd)
ThreadRestores(t) == cwd' = th_original_cwd[t]

\* lines 260-280: communicate() returns or times out, the finally runs
ThreadFinish(t) ==
  /\ th_pc[t] = "running"
  /\ ThreadRestores(t)
  /\ th_pc' = [th_pc EXCEPT ![t] = "returned"]
  /\ NoteOverlap
  /\ UNCHANGED <<th_original_cwd, th_ran_in>>
  /\ ThreadFrame

ThreadsNext ==
  \/ \E t \in Threads : ThreadGetcwd(t)
  \/ \E t \in Threads : ThreadChdir(t)
  \/ \E t \in Threads : ThreadSpawn(t)
  \/ \E t \in Threads : ThreadFinish(t)

\* ------------------------------------------------------------------------
\* ai_agents.py: autonomous_develop_with_execution
\* ------------------------------------------------------------------------

Tasks == { <<"add two numbers">> }

\* plan_with_gemini: a plan, or one of its error strings (lines 66, 100, 102)
PlannerReplies ==
  { <<"1","."," ","w","r","i","t","e"," ","a","d","d","(",")">>,
    <<"E","r","r","o","r",":"," ","G","e","m","i","n","i"," ","A","P","I"," ","r","e","t","u","r","n","e","d"," ","s","t","a","t","u","s"," ","5","0","0",":"," ">> }

\* code_with_qwen3: code (a different text at each call), or one of its
\* error strings (lines 145, 203, 208 begin with "Error:", line 210 does not)
CoderReplies(k) ==
  { <<"p","r","i","n","t","(">> \o IntToStr(k + 1) \o <<")">>,
    <<"E","r","r","o","r",":"," ","F","i","r","e","w","o","r","k","s"," ","A","P","I"," ","r","e","t","u","r","n","e","d"," ","s","t","a","t","u","s"," ","5","0","0",":"," ">>,
    <<"E","r","r","o","r"," ","c","a","l","l","i","n","g"," ","Q","w","e","n","3","-","C","o","d","e","r"," ","A","P","I",":"," ","t","i","m","e","d"," ","o","u","t">> }

\* a check that recognises only the exception text of line 210
IsErrorCallingReply(code) == StartsWith(code, <<"E","r","r","o","r"," ","c","a","l","l","i","n","g">>)

\* line 419: generated_code.startswith("Error:")
IsErrorReply(code) == StartsWith(code, <<"E","r","r","o","r",":">>)

Event(ev, it, ok) == [ev |-> ev, it |-> it, ok |-> ok]

AutonomousResult(ok, code, results, iters, output, errors, packages) ==
  [success |-> ok, final_code |-> code, execution_results |-> results,
   iterations |-> iters, final_output |-> output, errors_encountered |-> errors,
   packages_installed |-> packages]

\* the lists a Python set of these elements can be turned into
Orderings(set) ==
  {o \in [1..Cardinality(set) -> set] : {o[i] : i \in 1..Cardinality(set)} = set}

\* extract_missing_packages: list(set(...)) fixes no order, so the value is
\* the set of lists it may return
extract_missing_packages(error_message) ==
  LET packages ==
        FindAllQuoted(error_message, <<"N","o"," ","m","o","d","u","l","e"," ","n","a","m","e","d"," ","'">>, 1)
        \o FindAllQuoted(error_message, <<"M","o","d","u","l","e","N","o","t","F","o","u","n","d","E","r","r","o","r",":"," ","N","o"," ","m","o","d","u","l","e"," ","n","a","m","e","d"," ","'">>, 1)
        \o FindAllWord(error_message, <<"I","m","p","o","r","t","E","r","r","o","r",":"," ","N","o"," ","m","o","d","u","l","e"," ","n","a","m","e","d"," ">>, 1)
  IN Orderings(Range(packages))

\* a feedback that sends every error of the run
EveryError(errors) == errors

\* errors_encountered[-3:]
LastThree(errors) ==
  IF Len(errors) <= 3 THEN errors ELSE SubSeq(errors, Len(errors) - 2, Len(errors))

\* line 416-417: the plan handed to the Coder after the first iteration
PlanWithErrors(p, errors) ==
  p \o <<"\n\nPREVIOUS ERRORS TO FIX:\n">> \o Join(<<"\n">>, LastThree(errors))

\* line 433
IterationFilename(it) == <<"a","u","t","o","n","o","m","o","u","s","_","i","t","e","r","a","t","i","o","n","_">> \o IntToStr(it + 1) \o <<".","p","y">>

\* a loop that runs one pass more than range(max_iterations)
InRangeInclusive(it, n) == it <= n

\* line 408: `for iteration in range(max_iterations)`
InRange(it, n) == it < n

LoopStart(limits) ==
  /\ pc = "planning"
  /\ task \in Tasks
  /\ max_iterations \in limits
  /\ plan = <<>>
  /\ iteration = 0
  /\ generated_code = <<>>
  /\ filename = <<>>
  /\ execution_results = <<>>
  /\ errors_encountered = <<>>
  /\ packages_installed = <<>>
  /\ missing_packages = <<>>
  /\ coder_plan = <<>>
  /\ result = None
  /\ trace = <<>>

LoopInit == LoopStart(0..MaxIterations)

\* line 400
Plan ==
  /\ pc = "planning"
  /\ \E reply \in PlannerReplies :
       /\ plan' = reply
       /\ trace' = Append(trace, Event("planner", 0, ~StartsWith(reply, <<"E","r","r","o","r">>)))
  /\ pc' = "generating"
  /\ UNCHANGED <<task, max_iterations, iteration, generated_code, filename,
                 execution_results, errors_encountered, packages_installed,
                 missing_packages, coder_plan, result>>
  /\ UNCHANGED engineVars
  /\ UNCHANGED <<classifyVars, driverVars>>

\* lines 408-429: the next iteration starts with a call of the Coder
Generate ==
  /\ pc = "generating"
  /\ InRange(iteration, max_iterations)
  /\ coder_plan' = IF iteration = 0 THEN plan ELSE PlanWithErrors(plan, errors_encountered)
  /\ \E reply \in CoderReplies(iteration) :
       /\ generated_code' = reply
       /\ trace' = Append(trace, Event("coder", iteration, ~IsErrorReply(reply)))
       /\ IF IsErrorReply(reply) THEN
            /\ result' = Some(AutonomousResult(FALSE, reply, execution_results,
                                iteration + 1, <<"Code generation failed">>,
                                errors_encountered, packages_installed))
            /\ pc' = "done"
          ELSE
            /\ pc' = "execute"
            /\ UNCHANGED result
  /\ UNCHANGED <<task, max_iterations, plan, iteration, filename, execution_results,
                 errors_encountered, packages_installed, missing_packages>>
  /\ UNCHANGED engineVars
  /\ UNCHANGED <<classifyVars, driverVars>>

\* a final result that forgets the errors of the run
ExhaustedResultNoErrors(code, results, n, errors, packages) ==
  AutonomousResult(FALSE, code, results, n,
                   <<"Max iterations reached without success">>, <<>>, packages)

\* the AutonomousResult of lines 484-492
ExhaustedResult(code, results, n, errors, packages) ==
  AutonomousResult(FALSE, code, results, n,
                   <<"Max iterations reached without success">>, errors, packages)

\* lines 482-492: range(max_iterations) is used up
Exhausted ==
  /\ pc = "generating"
  /\ ~InRange(iteration, max_iterations)
  /\ result' = Some(ExhaustedResult(generated_code, execution_results, max_iterations,
                                     errors_encountered, packages_installed))
  /\ pc' = "done"
  /\ UNCHANGED <<task, max_iterations, plan, iteration, generated_code, filename,
                 execution_results, errors_encountered, packages_installed,
                 missing_packages, coder_plan, trace>>
  /\ UNCHANGED engineVars
  /\ UNCHANGED <<classifyVars, driverVars>>

\* lines 433-434: executor.execute_python_code(generated_code, filename)
ExecutePrimary ==
  /\ pc = "execute"
  /\ filename' = IterationFilename(iteration)
  /\ execute_python_code(generated_code, IterationFilename(iteration), 0)
  /\ pc' = "wait_primary"
  /\ UNCHANGED <<task, max_iterations, plan, iteration, generated_code,
                 execution_results, errors_encountered, packages_installed,
                 missing_packages, coder_plan, result, trace>>
  /\ UNCHANGED <<classifyVars, driverVars>>

\* a success result that reports the output of the first execution
SuccessResultFirstOutput(code, results, it, output, errors, packages) ==
  AutonomousResult(TRUE, code, results, it + 1, results[1].stdout, errors, packages)

\* a success result that leaves out the execution that succeeded
SuccessResultWithoutLast(code, results, it, output, errors, packages) ==
  AutonomousResult(TRUE, code, SubSeq(results, 1, Len(results) - 1), it + 1, output,
                   errors, packages)

\* a success result that counts executions instead of iterations
SuccessResultRecount(code, results, it, output, errors, packages) ==
  AutonomousResult(TRUE, code, results, it + Len(results), output, errors, packages)

\* the AutonomousResult of lines 441-449 and 472-480
SuccessResult(code, results, it, output, errors, packages) ==
  AutonomousResult(TRUE, code, results, it + 1, output, errors, packages)

\* a package loop that is left after its first pass
NextPackageBreak ==
  /\ missing_packages' = <<>>
  /\ pc' = "generating"
  /\ iteration' = iteration + 1

\* the end of one pass of `for package in missing_packages`: the next
\* package, or the next iteration when the list is used up
NextPackage ==
  /\ missing_packages' = Tail(missing_packages)
  /\ IF Tail(missing_packages) = <<>>
     THEN pc' = "generating" /\ iteration' = iteration + 1
     ELSE pc' = "install" /\ UNCHANGED iteration

ReturnToLoop ==
  /\ e_pc' = "idle"
  /\ UNCHANGED <<e_command, e_context, e_timeout, e_result, execution_history, log,
                 cwd, original_cwd, procs, popen_calls, approval_prompts, files>>
  /\ UNCHANGED faulted

\* a list that keeps the latest error only
KeepLatestError(errors, stderr) == << stderr >>

\* line 453: errors_encountered.append(exec_result.stderr)
RecordError(errors, stderr) == Append(errors, stderr)

\* lines 435-457: the primary execution has returned
PrimaryReturns ==
  /\ pc = "wait_primary"
  /\ e_pc = "returned"
  /\ LET exec_result == PythonReturn(TheResult) IN
     /\ execution_results' = Append(execution_results, exec_result)
     /\ trace' = Append(trace, Event("execute", iteration, exec_result.success))
     /\ IF exec_result.success THEN
          /\ result' = Some(SuccessResult(generated_code,
                              Append(execution_results, exec_result), iteration,
                              exec_result.stdout, errors_encountered, packages_installed))
          /\ pc' = "done"
          /\ UNCHANGED <<errors_encountered, missing_packages, iteration>>
        ELSE
          /\ errors_encountered' = RecordError(errors_encountered, exec_result.stderr)
          /\ UNCHANGED result
          /\ IF exec_result.error_type = "MISSING_MODULE" THEN
               \E missing \in extract_missing_packages(exec_result.stderr) :
                 /\ missing_packages' = missing
                 /\ IF missing = <<>>
                    THEN pc' = "generating" /\ iteration' = iteration + 1
                    ELSE pc' = "install" /\ UNCHANGED iteration
             ELSE
               /\ pc' = "generating"
               /\ iteration' = iteration + 1
               /\ UNCHANGED missing_packages
  /\ ReturnToLoop
  /\ UNCHANGED <<task, max_iterations, plan, generated_code, filename,
                 packages_installed, coder_plan>>
  /\ UNCHANGED <<classifyVars, driverVars>>

\* line 460: executor.install_package(package)
Install ==
  /\ pc = "install"
  /\ install_package(Head(missing_packages))
  /\ pc' = "wait_install"
  /\ UNCHANGED <<task, max_iterations, plan, iteration, generated_code, filename,
                 execution_results, errors_encountered, packages_installed,
                 missing_packages, coder_plan, result, trace>>
  /\ UNCHANGED <<classifyVars, driverVars>>

\* a loop that asks the Coder again once the package is installed
RegenerateFirst == pc' = "generating"

\* lines 465-467: the retry is the statement after the install
RetrySameCode == pc' = "retry"

\* lines 461-463: the install has returned
InstallReturns ==
  /\ pc = "wait_install"
  /\ e_pc = "returned"
  /\ LET install_result == TheResult IN
     /\ trace' = Append(trace, Event("install", iteration, install_result.success))
     /\ IF install_result.success THEN
          /\ packages_installed' = Append(packages_installed, Head(missing_packages))
          /\ RetrySameCode
          /\ UNCHANGED <<missing_packages, iteration>>
        ELSE
          /\ NextPackage
          /\ UNCHANGED packages_installed
  /\ ReturnToLoop
  /\ UNCHANGED <<task, max_iterations, plan, generated_code, filename,
                 execution_results, errors_encountered, coder_plan, result>>
  /\ UNCHANGED <<classifyVars, driverVars>>

\* line 467: executor.execute_python_code(generated_code, f"{filename}_retry")
Retry ==
  /\ pc = "retry"
  /\ execute_python_code(generated_code, filename \o <<"_","r","e","t","r","y">>, 0)
  /\ pc' = "wait_retry"
  /\ UNCHANGED <<task, max_iterations, plan, iteration, generated_code, filename,
                 execution_results, errors_encountered, packages_installed,
                 missing_packages, coder_plan, result, trace>>
  /\ UNCHANGED <<classifyVars, driverVars>>

\* lines 468-480: the retry has returned
RetryReturns ==
  /\ pc = "wait_retry"
  /\ e_pc = "returned"
  /\ LET retry_result == PythonReturn(TheResult) IN
     /\ execution_results' = Append(execution_results, retry_result)
     /\ trace' = Append(trace, Event("retry", iteration, retry_result.success))
     /\ IF retry_result.success THEN
          /\ result' = Some(SuccessResult(generated_code,
                              Append(execution_results, retry_result), iteration,
                              retry_result.stdout, errors_encountered, packages_installed))
          /\ pc' = "done"
          /\ UNCHANGED <<missing_packages, iteration>>
        ELSE
          /\ NextPackage
          /\ UNCHANGED result
  /\ ReturnToLoop
  /\ UNCHANGED <<task, max_iterations, plan, generated_code, filename,
                 errors_encountered, packages_installed, coder_plan>>
  /\ UNCHANGED <<classifyVars, driverVars>>

LoopNext ==
  \/ Plan \/ Generate \/ Exhausted \/ ExecutePrimary \/ PrimaryReturns
  \/ Install \/ InstallReturns \/ Retry \/ RetryReturns
  \/ Validate \/ Chdir \/ ChdirFails \/ Spawn \/ SpawnFails \/ Complete \/ Timeout

\* ------------------------------------------------------------------------
\* Specifications
\* ------------------------------------------------------------------------

CommandUnused == c_command = <<>> /\ c_context = <<>> /\ c_verdicts = <<>>

ClassifyUnused == CommandUnused /\ FileUnused

LoopUnused ==
  /\ pc = "unused"
  /\ task = <<>>
  /\ max_iterations = 0
  /\ plan = <<>>
  /\ iteration = 0
  /\ generated_code = <<>>
  /\ filename = <<>>
  /\ execution_results = <<>>
  /\ errors_encountered = <<>>
  /\ packages_installed = <<>>
  /\ missing_packages = <<>>
  /\ coder_plan = <<>>
  /\ result = None
  /\ trace = <<>>

Init ==
  /\ ClassifyUnused /\ EngineInit /\ DriverInit /\ LoopInit
  /\ faulted = FALSE

Next == LoopNext

\* one run of autonomous_develop_with_execution on a fresh executor
Spec == Init /\ [][Next]_vars

InitLong ==
  /\ ClassifyUnused /\ EngineInit /\ DriverInit /\ LoopStart({LongIterations})
  /\ faulted = FALSE

NextLong == LoopNext

\* one run with more iterations than errors are fed back to the Coder
SpecLong == InitLong /\ [][NextLong]_vars

InitThreads ==
  /\ ClassifyUnused /\ EngineInit /\ DriverIdle /\ ThreadsInit /\ LoopUnused
  /\ faulted = FALSE

NextThreads == ThreadsNext

\* concurrent calls of one executor
SpecThreads == InitThreads /\ [][NextThreads]_vars

InitEngine ==
  /\ ClassifyUnused /\ EngineInit /\ DriverInit /\ LoopUnused
  /\ faulted = FALSE

NextEngine == DriverNext

\* direct calls of one executor
SpecEngine == InitEngine /\ [][NextEngine]_vars

InitClassify ==
  /\ ClassifyInit /\ EngineInit /\ DriverInit /\ LoopUnused
  /\ faulted = FALSE

NextClassify == ClassifyNext

\* validate_command on bounded inputs
SpecClassify == InitClassify /\ [][NextClassify]_vars

InitFiles ==
  /\ CommandUnused /\ FileInit /\ EngineInit /\ DriverInit /\ LoopUnused
  /\ faulted = FALSE

NextFiles == FileNext

\* validate_file_operation on bounded inputs
SpecFiles == InitFiles /\ [][NextFiles]_vars

\* ------------------------------------------------------------------------
\* Properties
\* ------------------------------------------------------------------------

Last(seq) == seq[Len(seq)]

\* the verdict of the command the engine is working on
CurrentVerdict == validate_command(e_command, e_context)

RefusedOutright(verdict) == ~verdict.allowed /\ ~verdict.requires_approval

\* C1: a command whose verdict is allowed = false and requires_approval =
\* false is answered straight from the safety check with exit code -1,
\* success = false, error type SAFETY_VIOLATION and a stderr that carries the
\* verdict's reason; no process is spawned by that step, nor between the
\* result and its return to the caller.
C1_RefusedWithoutSpawn ==
  /\ [][ (e_pc = "validate" /\ RefusedOutright(CurrentVerdict)) =>
           /\ e_pc' = "returned"
           /\ e_result' # None
           /\ LET r == CHOOSE x \in e_result' : TRUE IN
                /\ r.command = e_command
                /\ r.exit_code = -1
                /\ ~r.success
                /\ r.error_type = "SAFETY_VIOLATION"
                /\ Contains(r.stderr, CurrentVerdict.reason)
           /\ popen_calls' = popen_calls
           /\ procs' = procs ]_vars
  /\ [][ e_pc = "returned" => (popen_calls' = popen_calls /\ procs' = procs) ]_vars

\* a refused command has been answered and nothing was ever spawned
C1_Witness ==
  /\ e_pc = "returned"
  /\ RefusedOutright(CurrentVerdict)
  /\ TheResult.error_type = "SAFETY_VIOLATION"
  /\ d_results # <<>>
  /\ popen_calls = <<>>

\* C2: when the verdict of a command asks for approval, the call has put the
\* approval question for that command before it returns, and it returns
\* either the denial (exit code -2, USER_DENIED, nothing spawned) or the
\* result of the spawned command, never the safety refusal.
C2_ApprovalAsked ==
  (e_pc = "returned" /\ CurrentVerdict.requires_approval) =>
    /\ approval_prompts # <<>>
    /\ Last(approval_prompts) = e_command
    /\ TheResult.exit_code # -1
    /\ TheResult.exit_code = -2 => TheResult.error_type = "USER_DENIED"

\* a command whose verdict asks for approval has been refused by the safety
\* check without any approval question
C2_Witness ==
  /\ e_pc = "returned"
  /\ CurrentVerdict.requires_approval
  /\ TheResult.exit_code = -1
  /\ approval_prompts = <<>>

\* a command of a forbidden entry, in any letter case
MentionsForbidden(command) ==
  \E forbidden \in forbidden_commands : Contains(Lower(command), Lower(forbidden))

\* C3: a command that contains a forbidden entry in any letter case is
\* classified FORBIDDEN with allowed = false and requires_approval = false,
\* whatever the context and whatever else the command matches.
C3_ForbiddenWins ==
  MentionsForbidden(c_command) =>
    \A i \in 1..Len(c_verdicts) :
      /\ c_verdicts[i].risk_level = "forbidden"
      /\ ~c_verdicts[i].allowed
      /\ ~c_verdicts[i].requires_approval

\* an upper-case forbidden command behind a safe prefix, in front of a
\* dangerous tail and with a context, has been classified
C3_Witness ==
  /\ c_verdicts # <<>>
  /\ MentionsForbidden(c_command)
  /\ c_command # Lower(c_command)
  /\ c_context # <<>>
  /\ _is_safe(Strip(c_command))
  /\ _is_dangerous(Strip(c_command))

\* the name of a package token: the text before the first "="
RECURSIVE BareName(_)
BareName(token) ==
  IF token = <<>> \/ Head(token) = "=" THEN <<>>
  ELSE <<Head(token)>> \o BareName(Tail(token))

\* a pip install command, in any letter case, one of whose package tokens
\* has a blocklisted bare name
InstallsBlocklisted(command) ==
  LET split == shlex_split(Lower(Strip(command))) IN
  /\ split.ok
  /\ Len(split.parts) >= 3
  /\ split.parts[1] = <<"p","i","p">>
  /\ split.parts[2] = <<"i","n","s","t","a","l","l">>
  /\ \E i \in 3..Len(split.parts) :
       /\ Head(split.parts[i]) # "-"
       /\ BareName(split.parts[i]) \in dangerous_packages

\* C4: a pip install command with a blocklisted package name is never
\* classified CAUTION with allowed = true, and the pip install validator
\* reports it as DANGER with requires_approval = true.
C4_BlocklistedRejected ==
  (c_verdicts # <<>> /\ InstallsBlocklisted(c_command)) =>
    /\ \A i \in 1..Len(c_verdicts) :
         ~(c_verdicts[i].risk_level = "caution" /\ c_verdicts[i].allowed)
    /\ _validate_pip_install(Strip(c_command)).risk_level = "danger"
    /\ _validate_pip_install(Strip(c_command)).requires_approval

\* a pip install of a blocklisted package has been classified CAUTION and
\* allowed
C4_Witness ==
  /\ c_verdicts # <<>>
  /\ InstallsBlocklisted(c_command)
  /\ c_verdicts[1].risk_level = "caution"
  /\ c_verdicts[1].allowed

\* the calls and executions a run has made, from its trace
Count(ev) == Cardinality({i \in DOMAIN trace : trace[i].ev = ev})

CountIn(ev, it) ==
  Cardinality({i \in DOMAIN trace : trace[i].ev = ev /\ trace[i].it = it})

TheRunResult == CHOOSE r \in result : TRUE

\* a text that begins with the error marker
HasErrorMarker(text) == Len(text) >= 6 /\ SubSeq(text, 1, 6) = <<"E","r","r","o","r",":">>

\* once the run has returned, nothing is called, installed or executed
NothingAfterDone ==
  pc = "done" =>
    UNCHANGED <<pc, trace, popen_calls, execution_results, packages_installed,
                files, result>>

\* the engine's position in a call, counted down to its return
EngineRank ==
  CASE e_pc = "validate" -> 5
    [] e_pc = "chdir" -> 4
    [] e_pc = "spawn" -> 3
    [] e_pc = "running" -> 2
    [] e_pc = "returned" -> 1
    [] OTHER -> 0

\* what a run still has ahead of it: the iterations left, then the position
\* in the iteration, then the packages left and the position in the pass
\* over the current package, then the engine's position
Remaining ==
  CASE pc = "done" -> 0
    [] pc = "planning" -> (max_iterations - iteration) * 1000 + 950
    [] pc = "generating" -> (max_iterations - iteration) * 1000 + 900
    [] pc = "execute" -> (max_iterations - iteration) * 1000 + 800
    [] pc = "wait_primary" -> (max_iterations - iteration) * 1000 + 700 + EngineRank
    [] pc = "install" ->
         (max_iterations - iteration) * 1000 + Len(missing_packages) * 30 + 24
    [] pc = "wait_install" ->
         (max_iterations - iteration) * 1000 + Len(missing_packages) * 30 + 18 + EngineRank
    [] pc = "retry" ->
         (max_iterations - iteration) * 1000 + Len(missing_packages) * 30 + 12
    [] pc = "wait_retry" ->
         (max_iterations - iteration) * 1000 + Len(missing_packages) * 30 + 6 + EngineRank

\* the run is where one of its steps applies: the engine is inside a call,
\* or has returned to a caller that waits for it, or the loop is at a call
CanProceed ==
  \/ e_pc \in {"validate", "chdir", "spawn", "running"}
  \/ e_pc = "returned" /\ pc \in {"wait_primary", "wait_install", "wait_retry"}
  \/ e_pc = "idle" /\ pc \in {"planning", "generating", "execute"}
  \/ e_pc = "idle" /\ pc \in {"install", "retry"} /\ missing_packages # <<>>

\* C5: a run with max_iterations = N terminates (every step uses up part of
\* a finite amount, and the run is never stuck before it has returned),
\* never makes more than N Coder calls, and returns a result whose
\* iterations field is at most N and equal to the number of iterations that
\* were started.
C5_BoundedRun ==
  /\ [][Remaining' < Remaining]_vars
  /\ [](Remaining >= 0)
  /\ [](pc = "done" \/ CanProceed)
  /\ [](Count("coder") <= max_iterations)
  /\ [](pc = "done" =>
          /\ result # None
          /\ TheRunResult.iterations <= max_iterations
          /\ TheRunResult.iterations = Count("coder"))

\* a run has used up all of its iterations
C5_Witness ==
  /\ pc = "done"
  /\ max_iterations = MaxIterations
  /\ Count("coder") = MaxIterations
  /\ ~TheRunResult.success

\* C6: a Coder call that returns a text with the error marker ends the run
\* at once as failed: nothing is executed in that iteration, the executions
\* made so far are returned, a marker at iteration 0 leaves one Coder call
\* and no execution result, and nothing follows the return.
C6_SentinelEndsRun ==
  /\ [][ (/\ Len(trace') = Len(trace) + 1
          /\ Last(trace').ev = "coder"
          /\ HasErrorMarker(generated_code')) =>
           /\ pc' = "done"
           /\ result' # None
           /\ ~TheRunResult'.success
           /\ TheRunResult'.execution_results = execution_results
           /\ execution_results' = execution_results
           /\ popen_calls' = popen_calls
           /\ \A i \in DOMAIN trace' :
                trace'[i].it = iteration => trace'[i].ev \in {"planner", "coder"}
           /\ iteration = 0 =>
                Count("coder")' = 1 /\ TheRunResult'.execution_results = <<>> ]_vars
  /\ [][NothingAfterDone]_vars

\* the Coder has returned the marker in the second iteration
C6_Witness ==
  /\ pc = "done"
  /\ HasErrorMarker(generated_code)
  /\ iteration = 1
  /\ Len(execution_results) >= 1
  /\ ~TheRunResult.success

\* C7: after the Planner has returned a failure text the run makes no Coder
\* call and executes nothing.
C7_PlannerFailureFatal ==
  (pc # "planning" /\ StartsWith(plan, <<"E","r","r","o","r">>)) =>
    /\ Count("coder") = 0
    /\ popen_calls = <<>>

\* the Coder was called with the Planner's failure text as its plan, and the
\* code it returned has been executed
C7_Witness ==
  /\ StartsWith(plan, <<"E","r","r","o","r">>)
  /\ coder_plan = plan
  /\ Count("coder") >= 1
  /\ popen_calls # <<>>

\* C8: the first successful execution result, primary or retry, ends the
\* run: the result is success with final_output that result's stdout and
\* final_code the text of the file that was executed, no earlier result was
\* a success, and nothing follows the return.
C8_FirstSuccessEndsRun ==
  /\ [][ (/\ Len(execution_results') = Len(execution_results) + 1
          /\ Last(execution_results').success) =>
           /\ pc' = "done"
           /\ result' # None
           /\ TheRunResult'.success
           /\ TheRunResult'.final_output = Last(execution_results').stdout
           /\ TheRunResult'.final_code = generated_code
           /\ TheRunResult'.execution_results = execution_results'
           /\ \E name \in DOMAIN files :
                /\ Last(execution_results').command = <<"p","y","t","h","o","n","3"," ">> \o name
                /\ files[name] = TheRunResult'.final_code
           /\ \A i \in 1..Len(execution_results) : ~execution_results[i].success ]_vars
  /\ [][NothingAfterDone]_vars

\* a run has ended on a successful retry
C8_Witness ==
  /\ pc = "done"
  /\ TheRunResult.success
  /\ Last(trace).ev = "retry"
  /\ Len(execution_results) >= 2
  /\ TheRunResult.final_output = Last(execution_results).stdout

\* the packages extract_missing_packages finds in a stderr text
ExtractedFrom(stderr) == UNION {Range(o) : o \in extract_missing_packages(stderr)}

\* C9: within one iteration nothing is installed or re-executed after a
\* repair retry: the retry is the last install or execution of its iteration.
C9_OneRetryPerIteration ==
  \A i, j \in DOMAIN trace :
    (i < j /\ trace[i].ev = "retry" /\ trace[j].it = trace[i].it) =>
      trace[j].ev \notin {"install", "retry"}

\* C9 as the code has it: in an iteration every retry comes directly after a
\* successful install of that iteration and runs the unchanged code, there
\* are no more installs than packages extracted from the stderr of the
\* iteration's primary failure, and a failed retry is followed by the install
\* of the next extracted package, or by the next iteration when none is left.
C9_RetryAfterEachInstall ==
  /\ [](\A i \in DOMAIN trace :
          trace[i].ev = "retry" =>
            i > 1 /\ trace[i - 1] = Event("install", trace[i].it, TRUE))
  /\ [](\A k \in 1..Len(errors_encountered) :
          CountIn("install", k - 1) <= Cardinality(ExtractedFrom(errors_encountered[k])))
  /\ [][ (/\ pc = "wait_retry"
          /\ pc' # "wait_retry"
          /\ ~Last(execution_results').success) =>
           /\ generated_code' = generated_code
           /\ missing_packages' = Tail(missing_packages)
           /\ IF Tail(missing_packages) # <<>>
              THEN pc' = "install" /\ iteration' = iteration
              ELSE pc' = "generating" /\ iteration' = iteration + 1 ]_vars

\* the code has been retried twice in one iteration
C9_Witness ==
  \E k \in 0..MaxIterations : CountIn("retry", k) = 2 /\ CountIn("install", k) = 2

\* the first code failed on one missing package, which was installed, and
\* the retry succeeded
C10_Repaired ==
  /\ Len(trace) >= 5
  /\ trace[2] = Event("coder", 0, TRUE)
  /\ trace[3] = Event("execute", 0, FALSE)
  /\ execution_results[1].error_type = "MISSING_MODULE"
  /\ Cardinality(ExtractedFrom(execution_results[1].stderr)) = 1
  /\ trace[4] = Event("install", 0, TRUE)
  /\ trace[5] = Event("retry", 0, TRUE)

\* C10: when the first generated code fails with MISSING_MODULE naming one
\* package, its install succeeds and the retry succeeds, the run returns
\* success with iterations = 1 after one Coder call and one retry, two
\* execution results, packages_installed holding just that package and
\* final_output the retry's stdout.
C10_RepairSucceeds ==
  C10_Repaired =>
    /\ pc = "done"
    /\ Len(trace) = 5
    /\ result # None
    /\ TheRunResult.success
    /\ TheRunResult.iterations = 1
    /\ Count("coder") = 1
    /\ Count("retry") = 1
    /\ Len(TheRunResult.execution_results) = 2
    /\ ExtractedFrom(execution_results[1].stderr) = {TheRunResult.packages_installed[1]}
    /\ Len(TheRunResult.packages_installed) = 1
    /\ TheRunResult.final_output = TheRunResult.execution_results[2].stdout
    /\ TheRunResult.final_code = generated_code

C10_Witness == C10_Repaired /\ pc = "done"

\* the executions of a run that are not retries, and what the engine's
\* history says was installed
IsRetryCommand(command) == EndsWith(command, <<"_","r","e","t","r","y",".","p","y">>)

IsPipCommand(command) == StartsWith(command, <<"p","i","p"," ","i","n","s","t","a","l","l"," ">>)

FailedPrimaries(results) ==
  SelectSeq(results, LAMBDA r : ~r.success /\ ~IsRetryCommand(r.command))

StderrOf(results) == [i \in 1..Len(results) |-> results[i].stderr]

InstalledPerHistory ==
  LET done == SelectSeq(execution_history,
                        LAMBDA r : r.success /\ IsPipCommand(r.command))
  IN [i \in 1..Len(done) |-> SubSeq(done[i].command, 13, Len(done[i].command))]

NoSentinel == \A i \in DOMAIN trace : trace[i].ev = "coder" => trace[i].ok

NoExecutionSucceeded ==
  \A i \in DOMAIN trace : trace[i].ev \in {"execute", "retry"} => ~trace[i].ok

ExhaustionMessage == <<"Max iterations reached without success">>

\* C11: a run with max_iterations = N >= 1 in which the Coder never returns
\* the error marker and no execution succeeds ends with success = false,
\* iterations = N and the exhaustion message, after N Coder calls and N
\* primary executions; its three lists are the ones the run collected (every
\* execution result, the stderr of every failed primary execution, every
\* package whose install succeeded); and no failed call of the engine,
\* whatever its kind, ends the run.
C11_ExhaustedRun ==
  /\ [](  (pc = "done" /\ max_iterations >= 1 /\ NoSentinel /\ NoExecutionSucceeded) =>
            /\ ~TheRunResult.success
            /\ TheRunResult.iterations = max_iterations
            /\ TheRunResult.final_output = ExhaustionMessage
            /\ Count("coder") = max_iterations
            /\ Count("execute") = max_iterations
            /\ TheRunResult.execution_results = execution_results
            /\ Len(execution_results) = Count("execute") + Count("retry")
            /\ TheRunResult.errors_encountered = StderrOf(FailedPrimaries(execution_results))
            /\ Len(TheRunResult.errors_encountered) = max_iterations
            /\ TheRunResult.packages_installed = InstalledPerHistory )
  /\ [][ (/\ pc \in {"wait_primary", "wait_install", "wait_retry"}
          /\ e_pc = "returned"
          /\ ~TheResult.success) =>
           /\ pc' \in {"generating", "install"}
           /\ result' = None
           /\ (pc' = "generating" => iteration' = iteration + 1) ]_vars

\* the first execution timed out, the code was generated again, an install
\* of the second iteration was refused by the safety check, and the run
\* ended exhausted
C11_Witness ==
  /\ pc = "done"
  /\ max_iterations = 2
  /\ TheRunResult.final_output = ExhaustionMessage
  /\ TheRunResult.iterations = 2
  /\ Count("coder") = 2
  /\ TheRunResult.execution_results[1].error_type = "TIMEOUT"
  /\ Len(TheRunResult.errors_encountered) = 2
  /\ TheRunResult.errors_encountered[2] = StderrMissingSub
  /\ \E i \in DOMAIN trace : trace[i].ev = "install" /\ trace[i].it = 1 /\ ~trace[i].ok
  /\ popen_calls = << <<"p","y","t","h","o","n","3"," ","a","u","t","o","n","o","m","o","u","s","_","i","t","e","r","a","t","i","o","n","_","1",".","p","y">>,
                      <<"p","y","t","h","o","n","3"," ","a","u","t","o","n","o","m","o","u","s","_","i","t","e","r","a","t","i","o","n","_","2",".","p","y">> >>

\* C12: when the spawned command has timed out, the result that is returned
\* has exit code -3, success = false and error type TIMEOUT, and no process
\* of the command's group is alive once it has been returned.
C12_GroupTerminated ==
  (e_pc = "returned" /\ e_result # None /\ TheResult.exit_code = -3) =>
    /\ ~TheResult.success
    /\ TheResult.error_type = "TIMEOUT"
    /\ procs = {}

\* the timeout result has been returned while a child of the command lives
C12_Witness ==
  /\ e_pc = "returned"
  /\ e_result # None
  /\ TheResult.exit_code = -3
  /\ TheResult.error_type = "TIMEOUT"
  /\ ~TheResult.success
  /\ Last(popen_calls) = e_command
  /\ procs = {"child"}

\* C13: the working directory of the process is the workspace exactly while
\* the engine is between its chdir and the end of the spawned command, and
\* is the caller's directory at every other moment: before a call, during
\* the safety check, and after every kind of return (refusal, completion
\* with any exit code, timeout, failed chdir, failed spawn, failed write).
C13_DirectoryRestored ==
  /\ e_pc \in {"spawn", "running"} => cwd = WorkspaceDir
  /\ e_pc \in {"idle", "validate", "chdir", "returned"} => cwd = OriginalDir
  /\ e_pc \in {"spawn", "running"} => original_cwd = OriginalDir

\* two calls have returned, one of them through an exception raised after
\* the chdir (a timeout or a failed spawn), and the directory is the
\* caller's
C13_Witness ==
  /\ e_pc = "idle"
  /\ Len(d_results) = 2
  /\ \E i \in 1..2 : d_results[i].exit_code \in {-3, -4}
  /\ \E i \in 1..2 : d_results[i].exit_code = 2
  /\ Len(popen_calls) = 2
  /\ original_cwd = OriginalDir
  /\ cwd = OriginalDir

\* the exit codes the engine makes up itself, and the error type of each
SentinelType(code) ==
  CASE code = -1 -> "SAFETY_VIOLATION"
    [] code = -2 -> "USER_DENIED"
    [] code = -3 -> "TIMEOUT"
    [] code = -4 -> "EXECUTION_ERROR"
    [] code = -5 -> "PYTHON_EXECUTION_ERROR"

\* C14: every way out of a call is a returned ExecutionResult.  The step that
\* ends a call leaves a result for the command of the call; a refused
\* command gets exit code -1 (SAFETY_VIOLATION), a denied one -2
\* (USER_DENIED), a failed chdir or spawn -4 (EXECUTION_ERROR) with the
\* exception's text in stderr, a timeout -3 (TIMEOUT), and a command that
\* ended by itself its own exit code; success holds exactly for exit code 0.
C14_AlwaysAResult ==
  /\ [](e_pc = "returned" =>
          /\ e_result # None
          /\ TheResult.success = (TheResult.exit_code = 0)
          /\ (TheResult.exit_code < 0 =>
                /\ TheResult.exit_code \in {-1, -2, -3, -4, -5}
                /\ TheResult.error_type = SentinelType(TheResult.exit_code)
                /\ TheResult.stdout = <<>>)
          /\ (TheResult.exit_code # -5 =>
                /\ TheResult.command = e_command
                /\ (TheResult.exit_code = -1) = ~CurrentVerdict.allowed))
  /\ [][ (e_pc \in {"validate", "chdir", "spawn", "running"} /\ e_pc' = "returned") =>
           LET r == CHOOSE x \in e_result' : TRUE IN
           CASE e_pc = "validate" -> r.exit_code \in {-1, -2}
             [] e_pc \in {"chdir", "spawn"} ->
                  /\ r.exit_code = -4
                  /\ StartsWith(r.stderr, <<"Execution error: ">>)
             [] e_pc = "running" ->
                  \/ r.exit_code = -3 /\ popen_calls # <<>>
                  \/ \E o \in ProcessOutcomes(e_command) :
                       /\ r.exit_code = o.exit_code
                       /\ r.stdout = o.stdout
                       /\ r.stderr = o.stderr ]_vars
  /\ [][ (e_pc \in {"validate", "chdir", "spawn", "running"}) =>
           (e_pc' \in {"chdir", "spawn", "running", "returned"}) ]_vars

\* one caller has got back an engine error and a refusal
C14_Witness ==
  /\ e_pc = "idle"
  /\ Len(d_results) = 2
  /\ d_results[1].exit_code = -4
  /\ d_results[1].error_type = "EXECUTION_ERROR"
  /\ ~d_results[1].success
  /\ d_results[2].exit_code = -1
  /\ popen_calls = <<>>

\* the results a caller got from execute_command (the -5 result is made by
\* execute_python_code when the call never took place)
FromExecuteCommand(results) == SelectSeq(results, LAMBDA r : r.exit_code # -5)

\* C15: between calls, the engine's execution history is the list of the
\* results execute_command has returned, each once and in call order,
\* whatever their exit code.
C15_HistoryHoldsEveryResult ==
  e_pc = "idle" => execution_history = FromExecuteCommand(d_results)

\* a refusal and a completed command were returned, and only the second is
\* in the history
C15_Witness ==
  /\ e_pc = "idle"
  /\ Len(d_results) = 2
  /\ d_results[1].exit_code = -1
  /\ d_results[1].error_type = "SAFETY_VIOLATION"
  /\ d_results[2].exit_code = 0
  /\ execution_history = << d_results[2] >>

\* C16: between calls, the log holds for every call of execute_command one
\* EXECUTION_ATTEMPT record followed by one EXECUTION_RESULT record of the
\* result that was returned, whatever the outcome of the call.
C16_AttemptAndResultLogged ==
  e_pc = "idle" =>
    LET calls == FromExecuteCommand(d_results) IN
    /\ Len(log) = 2 * Len(calls)
    /\ \A i \in 1..Len(calls) :
         /\ log[2 * i - 1].action = "EXECUTION_ATTEMPT"
         /\ log[2 * i - 1].command = calls[i].command
         /\ log[2 * i] = ResultEntry(calls[i])

\* a refused call has returned and its attempt record is the last of the log
C16_Witness ==
  /\ e_pc = "idle"
  /\ Len(d_results) = 2
  /\ d_results[1].exit_code = 0
  /\ d_results[2].exit_code = -1
  /\ Len(log) = 3
  /\ log[2] = ResultEntry(d_results[1])
  /\ log[3] = AttemptEntry(d_results[2].command, <<"manual">>)

\* C17: packages_installed never holds the same name twice.
C17_NoDuplicatePackages ==
  \A i, j \in DOMAIN packages_installed :
    packages_installed[i] = packages_installed[j] => i = j

\* the same package was reported missing, and installed, in two iterations
C17_Witness ==
  /\ packages_installed = << <<"f","o","o">>, <<"f","o","o">> >>
  /\ \E i \in DOMAIN trace : trace[i] = Event("install", 0, TRUE)
  /\ \E i \in DOMAIN trace : trace[i] = Event("install", 1, TRUE)
  /\ errors_encountered = << StderrMissingFoo, StderrMissingFoo >>

IsPrefix(s, t) == Len(s) <= Len(t) /\ SubSeq(t, 1, Len(s)) = s

\* C18: every step of a run leaves errors_encountered and
\* packages_installed as they were or with one element added at the end,
\* and the lists of the returned AutonomousResult are the lists of the run;
\* so each earlier value of a list is a prefix of the returned one.
C18_ListsOnlyGrow ==
  /\ [][ /\ IsPrefix(errors_encountered, errors_encountered')
         /\ Len(errors_encountered') <= Len(errors_encountered) + 1
         /\ IsPrefix(packages_installed, packages_installed')
         /\ Len(packages_installed') <= Len(packages_installed) + 1 ]_vars
  /\ [](pc = "done" =>
          /\ TheRunResult.errors_encountered = errors_encountered
          /\ TheRunResult.packages_installed = packages_installed)

\* a run has returned two errors and two packages, collected one by one
C18_Witness ==
  /\ pc = "done"
  /\ Len(TheRunResult.errors_encountered) = 2
  /\ Len(TheRunResult.packages_installed) = 2
  /\ TheRunResult.errors_encountered[1] # TheRunResult.errors_encountered[2]

\* the first of the classifier's checks that a command matches, read off the
\* text of the command: an entry of a set occurs in it in any letter case,
\* or it begins with a safe entry
MentionsEntryOf(command, entries) ==
  \E entry \in entries : Contains(Lower(Strip(command)), entry)

BeginsWithSafe(command) ==
  \E entry \in safe_commands : StartsWith(Lower(Strip(command)), entry)

TierOf(command) ==
  IF MentionsEntryOf(command, forbidden_commands) THEN "forbidden"
  ELSE IF MentionsEntryOf(command, dangerous_commands) THEN "dangerous"
  ELSE IF MentionsEntryOf(command, caution_commands) THEN "caution"
  ELSE IF BeginsWithSafe(command) THEN "safe"
  ELSE "default"

\* C19: the verdict is the one of the first check the command matches, in
\* the order forbidden, dangerous, caution, safe prefix, default: FORBIDDEN
\* and refused; DANGER, refused, approval required, even behind a safe
\* prefix; the caution verdict (CAUTION and allowed, or what the pip
\* validator says for an install); SAFE and allowed; and for a command that
\* matches nothing WARNING, refused, approval required.
C19_FirstMatchWins ==
  \A i \in 1..Len(c_verdicts) :
    LET v == c_verdicts[i]
        tier == TierOf(c_command)
    IN
    /\ tier = "forbidden" =>
         v.risk_level = "forbidden" /\ ~v.allowed /\ ~v.requires_approval
    /\ tier = "dangerous" =>
         v.risk_level = "danger" /\ ~v.allowed /\ v.requires_approval
    /\ tier = "caution" =>
         IF Contains(c_command, <<"p","i","p"," ","i","n","s","t","a","l","l">>)
         THEN /\ v.risk_level \in {"caution", "danger", "warning"}
              /\ v.allowed = (v.risk_level = "caution")
              /\ v.reason # <<"Unknown command pattern - requires validation">>
         ELSE v.risk_level = "caution" /\ v.allowed /\ ~v.requires_approval
    /\ tier = "safe" =>
         v.risk_level = "safe" /\ v.allowed /\ ~v.requires_approval
    /\ tier = "default" =>
         v.risk_level = "warning" /\ ~v.allowed /\ v.requires_approval

\* a command that begins with a safe entry and holds a dangerous and a
\* caution entry, but no forbidden one, has been classified DANGER
C19_Witness ==
  /\ c_verdicts # <<>>
  /\ BeginsWithSafe(c_command)
  /\ StartsWith(c_command, <<"p","y","t","h","o","n"," ">>)
  /\ MentionsEntryOf(c_command, dangerous_commands)
  /\ MentionsEntryOf(c_command, caution_commands)
  /\ ~MentionsEntryOf(c_command, forbidden_commands)
  /\ c_verdicts[1].risk_level = "danger"
  /\ c_verdicts[1].requires_approval

\* C20: a failed result whose error type is not UNKNOWN_ERROR has at least
\* one suggested fix.
C20_KnownCategoryHasFixes ==
  \A i \in DOMAIN d_results :
    (~d_results[i].success /\ d_results[i].error_type # "UNKNOWN_ERROR") =>
      d_results[i].suggested_fixes # <<>>

\* a command ended with a NameError: the result is classified NAME_ERROR
\* and has no suggested fix
C20_Witness ==
  /\ d_results # <<>>
  /\ ~Last(d_results).success
  /\ Last(d_results).exit_code = 1
  /\ Last(d_results).error_type = "NAME_ERROR"
  /\ Contains(Last(d_results).stderr, <<"N","a","m","e","E","r","r","o","r">>)
  /\ Last(d_results).suggested_fixes = <<>>
  /\ Last(execution_history) = Last(d_results)

\* a path that names one of the system directories, and one that begins
\* with an allow-listed working directory
TouchesSystemPath(filepath) ==
  \E system_path \in system_paths : Contains(filepath, system_path)

InAllowedDir(filepath) ==
  \E allowed_dir \in allowed_dirs : StartsWith(filepath, allowed_dir)

\* C21: a path that touches a system directory is answered FORBIDDEN, not
\* allowed, with no suggested alternative, whether or not it begins with an
\* allow-listed directory; DANGER with approval required is answered only
\* for a path that touches no system directory and is outside the allow-list.
C21_SystemPathsForbidden ==
  \A i \in 1..Len(f_verdicts) :
    /\ TouchesSystemPath(f_filepath) =>
         /\ f_verdicts[i].risk_level = "forbidden"
         /\ ~f_verdicts[i].allowed
         /\ f_verdicts[i].suggested_alternative = None
    /\ f_verdicts[i].risk_level = "danger" =>
         /\ f_verdicts[i].requires_approval
         /\ ~TouchesSystemPath(f_filepath)
         /\ ~InAllowedDir(f_filepath)

\* /etc/passwd has been answered DANGER, approval required
C21_Witness ==
  /\ f_filepath = <<"/","e","t","c","/","p","a","s","s","w","d">>
  /\ f_verdicts # <<>>
  /\ f_verdicts[1].risk_level = "danger"
  /\ f_verdicts[1].requires_approval
  /\ ~f_verdicts[1].allowed

\* the file name in the command execute_python_code builds
FileNamedIn(command) == SubSeq(command, Len(<<"p","y","t","h","o","n","3"," ">>) + 1, Len(command))

\* C22: when execute_python_code has a result other than the -5 write
\* failure, the workspace file named in the result's command (ending in .py)
\* holds exactly the code it was given, whether the execution succeeded, was
\* blocked or timed out.
C22_FileHoldsCode ==
  (d_kind = "python" /\ e_pc = "returned" /\ TheResult.exit_code # -5) =>
    LET name == FileNamedIn(TheResult.command) IN
      /\ StartsWith(TheResult.command, <<"p","y","t","h","o","n","3"," ">>)
      /\ EndsWith(name, <<".","p","y">>)
      /\ name \in DOMAIN files
      /\ files[name] = d_code

\* formatter.py was written and then refused by the validator; job.py was
\* written and its execution timed out
C22_Witness ==
  /\ Len(d_results) = 1
  /\ d_results[1].command = <<"p","y","t","h","o","n","3"," ","f","o","r","m","a","t","t","e","r",".","p","y">>
  /\ d_results[1].exit_code = -1
  /\ <<"f","o","r","m","a","t","t","e","r",".","p","y">> \in DOMAIN files
  /\ files[<<"f","o","r","m","a","t","t","e","r",".","p","y">>] \in DriverCodes
  /\ d_kind = "python"
  /\ e_pc = "returned"
  /\ TheResult.exit_code = -3
  /\ TheResult.command = <<"p","y","t","h","o","n","3"," ","j","o","b",".","p","y">>
  /\ files[<<"j","o","b",".","p","y">>] = d_code
  /\ d_code = <<"x"," ","="," ","2">>

IsCoderFailure(code) == StartsWith(code, <<"E","r","r","o","r">>)

\* C24: every failure text of the Coder is recognised by the loop: the run
\* ends as failed with it, and no workspace file ever holds a failure text.
C24_CoderFailureNeverExecuted ==
  /\ IsCoderFailure(generated_code) =>
       /\ pc = "done"
       /\ ~TheRunResult.success
       /\ TheRunResult.final_output = <<"Code generation failed">>
  /\ \A name \in DOMAIN files : ~IsCoderFailure(files[name])
  /\ \A i \in DOMAIN trace : trace[i].ev = "coder" /\ ~trace[i].ok => i = Len(trace)

\* the text of the request exception was saved as autonomous_iteration_1.py
\* and handed to the interpreter
C24_Witness ==
  /\ generated_code = <<"E","r","r","o","r"," ","c","a","l","l","i","n","g"," ","Q","w","e","n","3","-","C","o","d","e","r"," ","A","P","I",":"," ","t","i","m","e","d"," ","o","u","t">>
  /\ <<"a","u","t","o","n","o","m","o","u","s","_","i","t","e","r","a","t","i","o","n","_","1",".","p","y">> \in DOMAIN files
  /\ files[<<"a","u","t","o","n","o","m","o","u","s","_","i","t","e","r","a","t","i","o","n","_","1",".","p","y">>] = generated_code
  /\ popen_calls # <<>>
  /\ popen_calls[1] = <<"p","y","t","h","o","n","3"," ","a","u","t","o","n","o","m","o","u","s","_","i","t","e","r","a","t","i","o","n","_","1",".","p","y">>
  /\ execution_results # <<>>
  /\ execution_results[1].error_type = "SYNTAX_ERROR"

\* the smaller of two numbers
Min(a, b) == IF a <= b THEN a ELSE b

\* the n most recent entries of a list, oldest first
MostRecent(list, n) == [i \in 1..n |-> list[Len(list) - n + i]]

\* C25: the Planner is called once per run and the plan is never changed;
\* the Coder gets the plan as it is in iteration 0, and in every later
\* iteration the plan followed by the min(3, number of errors) most recent
\* entries of errors_encountered, in order, and no older one.
C25_PlanAndLastThreeErrors ==
  /\ [](Count("planner") = IF pc = "planning" THEN 0 ELSE 1)
  /\ [][ (pc # "planning") => (plan' = plan) ]_vars
  /\ [][ (Count("coder")' # Count("coder")) =>
           LET fed == MostRecent(errors_encountered, Min(3, Len(errors_encountered)))
           IN /\ pc = "generating"
              /\ coder_plan' =
                   IF iteration = 0 THEN plan
                   ELSE plan \o <<"\n\nPREVIOUS ERRORS TO FIX:\n">> \o Join(<<"\n">>, fed)
              /\ StartsWith(coder_plan', plan)
              /\ Len(fed) = IF Len(errors_encountered) > 3 THEN 3
                            ELSE Len(errors_encountered) ]_vars

\* the fifth call of the Coder: four errors were recorded, the first of them
\* is not among the three it was given
C25_Witness ==
  /\ iteration = 4
  /\ pc = "execute"
  /\ Len(errors_encountered) = 4
  /\ Count("planner") = 1
  /\ Count("coder") = 5
  /\ ~Contains(coder_plan, errors_encountered[1])
  /\ Contains(coder_plan, errors_encountered[2])
  /\ coder_plan = plan \o <<"\n\nPREVIOUS ERRORS TO FIX:\n">> \o errors_encountered[2]
                    \o <<"\n">> \o errors_encountered[3] \o <<"\n">> \o errors_encountered[4]

\* the file of the primary execution a retry file belongs to
PrimaryOf(retry_name) == SubSeq(retry_name, 1, Len(retry_name) - Len(<<"_","r","e","t","r","y",".","p","y">>))

\* C26: a retry follows the successful install of its iteration with no
\* Coder call between the failed MISSING_MODULE execution and the retry, it
\* runs the code of that failed execution, and the Coder is called once per
\* iteration, the next time only after every retry before it has failed.
C26_RetryBeforeRegeneration ==
  /\ \A i \in DOMAIN trace :
       (trace[i].ev = "install" /\ trace[i].ok /\ i < Len(trace)) =>
         /\ trace[i + 1].ev = "retry"
         /\ trace[i + 1].it = trace[i].it
  /\ \A i, j \in DOMAIN trace :
       (i < j /\ trace[i].ev = "execute" /\ trace[j].ev = "retry"
          /\ trace[i].it = trace[j].it) =>
         /\ ~trace[i].ok
         /\ \A k \in i..j : trace[k].ev # "coder"
         /\ \E r \in DOMAIN execution_results :
              /\ execution_results[r].command = PythonCommand(IterationFilename(trace[i].it))
              /\ execution_results[r].error_type = "MISSING_MODULE"
  /\ \A i, j \in DOMAIN trace :
       (i < j /\ trace[i].ev = "coder" /\ trace[j].ev = "coder") =>
         /\ trace[i].it < trace[j].it
         /\ \A k \in i..j : trace[k].ev = "retry" => ~trace[k].ok
  /\ \A name \in DOMAIN files :
       IsRetryCommand(name) =>
         /\ PrimaryOf(name) \in DOMAIN files
         /\ files[name] = files[PrimaryOf(name)]
  /\ (pc = "wait_retry" /\ ~(e_pc = "returned" /\ TheResult.exit_code = -5)) =>
       /\ e_command = PythonCommand(filename \o <<"_","r","e","t","r","y">>)
       /\ files[FileNamedIn(e_command)] = generated_code
       /\ files[filename] = generated_code

\* the retry of the first iteration ran the first code and failed, and the
\* Coder has been called a second time, for the second iteration
C26_Witness ==
  /\ Len(trace) >= 5
  /\ trace[2] = Event("coder", 0, TRUE)
  /\ trace[3] = Event("execute", 0, FALSE)
  /\ trace[4] = Event("install", 0, TRUE)
  /\ trace[5] = Event("retry", 0, FALSE)
  /\ Last(trace) = Event("coder", 1, TRUE)
  /\ files[<<"a","u","t","o","n","o","m","o","u","s","_","i","t","e","r","a","t","i","o","n","_","1",".","p","y","_","r","e","t","r","y",".","p","y">>] = <<"p","r","i","n","t","(","1",")">>
  /\ files[<<"a","u","t","o","n","o","m","o","u","s","_","i","t","e","r","a","t","i","o","n","_","1",".","p","y">>] = <<"p","r","i","n","t","(","1",")">>
  /\ generated_code = <<"p","r","i","n","t","(","2",")">>

\* C27: the flags of every verdict of validate_command follow from its risk
\* level: allowed exactly for SAFE and CAUTION, requires_approval exactly
\* for DANGER and WARNING, and never both.
C27_FlagsFollowRiskLevel ==
  \A i \in DOMAIN c_verdicts :
    /\ c_verdicts[i].allowed <=> c_verdicts[i].risk_level \in {"safe", "caution"}
    /\ c_verdicts[i].requires_approval <=> c_verdicts[i].risk_level \in {"danger", "warning"}
    /\ ~(c_verdicts[i].allowed /\ c_verdicts[i].requires_approval)

\* a pip install that is an argument of python has been answered WARNING by
\* the pip install validator, refused and without a request for approval
C27_Witness ==
  /\ StartsWith(c_command, <<"p","y","t","h","o","n"," ","p","i","p"," ","i","n","s","t","a","l","l"," ">>)
  /\ c_verdicts # <<>>
  /\ c_verdicts[1].risk_level = "warning"
  /\ c_verdicts[1].reason = <<"Invalid pip install command format">>
  /\ ~c_verdicts[1].allowed
  /\ ~c_verdicts[1].requires_approval

\* C28: the stderr of every failed result of the run, primary or retry, is
\* an entry of errors_encountered, and when the Coder is asked again the
\* newest entry is the stderr of the most recent failure.
C28_EveryFailureRecorded ==
  /\ \A i \in DOMAIN execution_results :
       ~execution_results[i].success =>
         \E j \in DOMAIN errors_encountered :
           errors_encountered[j] = execution_results[i].stderr
  /\ (pc = "generating" /\ execution_results # <<>>) =>
       Last(errors_encountered) = Last(execution_results).stderr

\* the retry failed on another module than the primary execution, and the
\* Coder was asked again without being told
C28_Witness ==
  /\ Len(execution_results) >= 2
  /\ execution_results[1].stderr = StderrMissingBar
  /\ IsRetryCommand(execution_results[2].command)
  /\ execution_results[2].stderr = StderrMissingFoo
  /\ ~execution_results[2].success
  /\ errors_encountered = << StderrMissingBar >>
  /\ Last(trace) = Event("coder", 1, TRUE)
  /\ ~Contains(coder_plan, StderrMissingFoo)

\* the results of primary executions and of retries in a list of results
Primaries(results) == SelectSeq(results, LAMBDA r : ~IsRetryCommand(r.command))

Retries(results) == SelectSeq(results, LAMBDA r : IsRetryCommand(r.command))

\* C29: in the result of a run, success is the success of the last of
\* execution_results, no result before the last is successful, and
\* execution_results has one entry for each primary execution and one for
\* each package appended to packages_installed.
C29_ResultShape ==
  pc = "done" =>
    LET results == TheRunResult.execution_results IN
    /\ TheRunResult.success <=> (results # <<>> /\ Last(results).success)
    /\ \A i \in DOMAIN results : results[i].success => i = Len(results)
    /\ Len(Primaries(results)) = Count("execute")
    /\ Len(Retries(results)) = Len(TheRunResult.packages_installed)
    /\ Len(results) = Count("execute") + Len(TheRunResult.packages_installed)
    /\ results = execution_results

\* a run of two iterations that installed a package in each and succeeded
\* with the second retry: four results, the last one successful
C29_Witness ==
  /\ pc = "done"
  /\ TheRunResult.success
  /\ Len(TheRunResult.execution_results) = 4
  /\ Len(TheRunResult.packages_installed) = 2
  /\ Count("execute") = 2
  /\ TheRunResult.execution_results[4].success
  /\ IsRetryCommand(TheRunResult.execution_results[2].command)

AllReturned == \A t \in Threads : th_pc[t] = "returned"

\* the statement of C30 without a condition on how the calls interleave:
\* every command runs in the workspace and the process ends in the original
\* directory
C30_SafeUnderInterleaving ==
  AllReturned =>
    /\ \A t \in Threads : th_ran_in[t] = WorkspaceDir
    /\ cwd = OriginalDir

\* C30: when the calls of the threads do not overlap, every command runs
\* with the workspace as its working directory and, after all calls have
\* returned, the process is in the original directory; while only one thread
\* is inside the function the directory is the one it set.
C30_SafeWhenSerial ==
  /\ (AllReturned /\ ~th_overlap) =>
       /\ \A t \in Threads : th_ran_in[t] = WorkspaceDir
       /\ cwd = OriginalDir
  /\ ~th_overlap =>
       \A t \in Threads :
         /\ th_pc[t] \in {"spawn", "running"} => cwd = WorkspaceDir
         /\ th_pc[t] = "returned" => th_ran_in[t] = WorkspaceDir

\* both calls have returned, one after the other
C30_Witness ==
  /\ AllReturned
  /\ ~th_overlap
  /\ \A t \in Threads : th_ran_in[t] = WorkspaceDir
  /\ cwd = OriginalDir
  /\ workspace_dir = "ai_workspace"

\* overlapping calls: one command was started in the original directory, and
\* the process is left in the workspace
C30_InterleavedWitness ==
  /\ AllReturned
  /\ th_overlap
  /\ \E t \in Threads : th_ran_in[t] = OriginalDir
  /\ cwd = WorkspaceDir


====
